---- MODULE Spec2Model ----
(***************************************************************************)
(* Model of the backtest engine of coin-notifier (src/src/backtest.rs)     *)
(* together with the trading models of src/src/signal_model.rs, the        *)
(* feature alignment of src/src/signal_input.rs, and live mode             *)
(* (src/src/main.rs, src/src/strategy, src/src/exchange).                  *)
(*                                                                         *)
(* Specifications:                                                         *)
(*   Spec          one engine executing over given candles and series      *)
(*   RunSpec       config::load and backtest::run, twice in a row          *)
(*   PairSpec      two engine instances stepped in any order               *)
(*   DrawdownSpec  calculate_max_drawdown_pct on its own                   *)
(*   AlignSpec     SignalInput::series and align_series on their own       *)
(*   EvaluateSpec  TradingModel::evaluate on its own                       *)
(*   IndicatorSpec Indicator::calculate on its own (src/src/indicator/)    *)
(*   SaveSpec      SqliteStorage::save_backtest_results, by statement      *)
(*   SlippageSpec  apply_slippage on its own                               *)
(*   CashSpec      one engine under fees up to and above 100%              *)
(*   TwinSpec      two engines on candle histories of equal length         *)
(*   RegistrySpec  build_model and build_input on one configuration        *)
(*   QuietSpec     RunSpec on stored candles that may open at 0            *)
(*   CandleSpec    sync_realtime_candles_from_trades (src/src/main.rs)     *)
(*   AlertSpec     analysis_loop and process_ticker with the alert log     *)
(*   LiveFairSpec  run_live: historical fetches, then the subscriptions    *)
(*   SubscribeSpec subscribe_ticker / subscribe_trades of an exchange      *)
(*   RulesSpec     config validation and AlertRule::from_config            *)
(*                                                                         *)
(* f64 quantities are modelled as exact rationals [n |-> Int, d |-> Nat]   *)
(* in lowest terms (the ledger in exact arithmetic); rounding of IEEE      *)
(* arithmetic is not modelled.                                             *)
(***************************************************************************)
EXTENDS Integers, Sequences, FiniteSets, TLC

(***************************************************************************)
(* Bounds of the model                                                     *)
(***************************************************************************)
\* Largest number of candles of a run (the engine needs at least 2).
MaxCandles == 4

(***************************************************************************)
(* Exact rational arithmetic standing for f64                              *)
(***************************************************************************)
Abs(x) == IF x < 0 THEN -x ELSE x

RECURSIVE Gcd(_, _)
Gcd(a, b) == IF b = 0 THEN a ELSE Gcd(b, a % b)

Frac(n, d) ==
    LET g == Gcd(Abs(n), Abs(d))
        s == IF d < 0 THEN -1 ELSE 1
    IN  [n |-> (s * n) \div g, d |-> (s * d) \div g]

R(k) == [n |-> k, d |-> 1]
Zero == R(0)
One == R(1)

\* Sums over the least common denominator, which keeps the products small.
RAdd(a, b) ==
    LET g == Gcd(a.d, b.d)
    IN  Frac(a.n * (b.d \div g) + b.n * (a.d \div g), (a.d \div g) * b.d)
RSub(a, b) ==
    LET g == Gcd(a.d, b.d)
    IN  Frac(a.n * (b.d \div g) - b.n * (a.d \div g), (a.d \div g) * b.d)
RMul(a, b) == Frac(a.n * b.n, a.d * b.d)
RDiv(a, b) == Frac(a.n * b.d, a.d * b.n)
RLt(a, b) == a.n * b.d < b.n * a.d
RLe(a, b) == a.n * b.d <= b.n * a.d
RGt(a, b) == RLt(b, a)
RMin(a, b) == IF RLe(a, b) THEN a ELSE b

\* Option<T>
None == [some |-> FALSE, v |-> 0]
Some(x) == [some |-> TRUE, v |-> x]

Last(s) == s[Len(s)]

(***************************************************************************)
(* Program constants                                                       *)
(***************************************************************************)
\* bps / 10_000.0
BpsDenominator == 10000
\* default_fee_bps
UpbitDefaultFeeBps == 5
BinanceDefaultFeeBps == 10

(***************************************************************************)
(* State                                                                   *)
(***************************************************************************)
VARIABLES
    settings,               \* BacktestConfig: capital, sizing, costs, risk
    exchange,               \* BacktestEngine.exchange (ExchangeKind)
    candles,                \* the candle history handed to execute
    model,                  \* the TradingModel handed to execute
    input_series,           \* HashMap<String, Vec<Option<f64>>>
    cash,                   \* BacktestEngine.cash
    last_entry_fill_index,  \* BacktestEngine.last_entry_fill_index
    open_lots,              \* BacktestEngine.open_lots
    trades,                 \* BacktestEngine.trades
    equity_curve,           \* BacktestEngine.equity_curve
    pc,                     \* position in execute: "loop" or "done"
    index,                  \* loop variable of execute (next index to run)
    action,                 \* what the last executed step decided
    accepted_buys,          \* ghost: number of Buys that passed every guard
    config,                 \* AppConfig: inputs, models, backtest section
    storage,                \* Storage: candles and saved backtest results
    run_pc,                 \* position in config::load and backtest::run
    run_record,             \* the BacktestRun assembled by build_run
    run_result,             \* what backtest::run returned to its caller
    save_calls,             \* ghost: calls of save_backtest_results in this run
    prev_output,            \* ghost: what the previous run of the pair computed
    parked,                 \* the engine instance that is not being stepped
    solo,                   \* ghost: what the first instance ended with alone
    fn_args,                \* arguments of a pure function under check
    fn_ret,                 \* its return value
    latest_candles,         \* sync_realtime_candles_from_trades: candle per key
    rx,                     \* ghost: the trades received from the channel so far
    now,                    \* Utc::now(), in minutes
    notified,               \* what Notifier::notify was called with, and when
    live_pc,                \* position in run_live
    historical_handles,     \* run_live: the spawned historical-fetch tasks
    task_handles,           \* run_live: the spawned WebSocket tasks
    sub_pc,                 \* position in subscribe_ticker / subscribe_trades
    cancel,                 \* CancellationToken: cancelled or not
    tx                      \* values sent into the subscription's channel

inputs == <<settings, exchange, candles, model, input_series>>
\* The state of live mode (main.rs run_live and the tasks it spawns).
live == <<latest_candles, rx, now, notified, live_pc, historical_handles,
          task_handles, sub_pc, cancel, tx>>
\* Everything that is not a field or local of the running engine.
outside == <<config, storage, run_pc, run_record, run_result, save_calls,
             prev_output, parked, solo, live, fn_args, fn_ret>>
vars == <<settings, exchange, candles, model, input_series, cash,
          last_entry_fill_index, open_lots, trades, equity_curve, pc, index,
          action, accepted_buys, config, storage, run_pc, run_record,
          run_result, save_calls, prev_output, parked, solo, live, fn_args, fn_ret>>

\* candles[i] with Rust's 0-based index
At(s, i) == s[i + 1]

(***************************************************************************)
(* Cost model                                                              *)
(***************************************************************************)
\* Mutant: the adjustment is applied in the trader's favour.
apply_slippage_favourable(price, slippage_bps, is_buy) ==
    LET ratio == RDiv(slippage_bps, R(BpsDenominator))
    IN  IF is_buy THEN RMul(price, RSub(One, ratio))
        ELSE RMul(price, RAdd(One, ratio))

apply_slippage(price, slippage_bps, is_buy) ==
    LET ratio == RDiv(slippage_bps, R(BpsDenominator))
    IN  IF is_buy THEN RMul(price, RAdd(One, ratio))
        ELSE RMul(price, RSub(One, ratio))

default_fee_bps(ex) ==
    IF ex = "upbit" THEN R(UpbitDefaultFeeBps) ELSE R(BinanceDefaultFeeBps)

resolve_fee_bps(ex, overrides) ==
    IF ex \in DOMAIN overrides THEN overrides[ex] ELSE default_fee_bps(ex)

(***************************************************************************)
(* Feature alignment and trading models                                    *)
(***************************************************************************)
\* Mutant: the values are placed at the front of the series.
align_series_left(total_len, values) ==
    [k \in 1..total_len |-> IF k <= Len(values) THEN Some(values[k]) ELSE None]

\* Mutant: the padding is put after the first value.
align_series_pads_after_first(total_len, values) ==
    LET offset == IF total_len >= Len(values) THEN total_len - Len(values) ELSE 0
    IN  [k \in 1..total_len |->
            IF k = 1 /\ values # <<>> THEN Some(values[1])
            ELSE IF k > offset + 1 THEN Some(values[k - offset])
            ELSE None]

align_series(total_len, values) ==
    LET offset == IF total_len >= Len(values) THEN total_len - Len(values) ELSE 0
    IN  [k \in 1..total_len |->
            IF k > offset THEN Some(values[k - offset]) ELSE None]

\* Mutant: only the first required input is looked up.
collect_feature_values_first_only(m, series, idx) ==
    LET name == m.required_inputs[1]
    IN  IF /\ name \in DOMAIN series
           /\ idx + 1 <= Len(series[name])
           /\ At(series[name], idx).some
        THEN Some([x \in {name} |-> At(series[name], idx).v])
        ELSE None

\* Mutant: the value of the next bar is read when the series has one.
collect_feature_values_next_bar(m, series, idx) ==
    LET names == {m.required_inputs[k] : k \in 1..Len(m.required_inputs)}
        at(name) == IF idx + 2 <= Len(series[name]) THEN idx + 1 ELSE idx
        present(name) == /\ name \in DOMAIN series
                         /\ idx + 1 <= Len(series[name])
                         /\ At(series[name], at(name)).some
    IN  IF \A name \in names : present(name)
        THEN Some([name \in names |-> At(series[name], at(name)).v])
        ELSE None

\* Option<HashMap<String, f64>>: None as soon as one required value is absent.
collect_feature_values(m, series, idx) ==
    LET names == {m.required_inputs[k] : k \in 1..Len(m.required_inputs)}
        present(name) == /\ name \in DOMAIN series
                         /\ idx + 1 <= Len(series[name])
                         /\ At(series[name], idx).some
    IN  IF \A name \in names : present(name)
        THEN Some([name \in names |-> At(series[name], idx).v])
        ELSE None

\* Mutant: a value equal to the oversold threshold is a Buy.
RsiReversionEvaluate_buy_at_threshold(m, feature_values) ==
    IF m.input_name \notin DOMAIN feature_values THEN "Hold"
    ELSE LET rsi == feature_values[m.input_name]
         IN  IF RLe(rsi, m.oversold) THEN "Buy"
             ELSE IF RGt(rsi, m.overbought) THEN "Sell"
             ELSE "Hold"

RsiReversionEvaluate(m, feature_values) ==
    IF m.input_name \notin DOMAIN feature_values THEN "Hold"
    ELSE LET rsi == feature_values[m.input_name]
         IN  IF RLt(rsi, m.oversold) THEN "Buy"
             ELSE IF RGt(rsi, m.overbought) THEN "Sell"
             ELSE "Hold"

SmaCrossEvaluate(m, feature_values) ==
    IF m.short_input \notin DOMAIN feature_values THEN "Hold"
    ELSE IF m.long_input \notin DOMAIN feature_values THEN "Hold"
    ELSE LET short == feature_values[m.short_input]
             long == feature_values[m.long_input]
         IN  IF RGt(short, long) THEN "Buy"
             ELSE IF RLt(short, long) THEN "Sell"
             ELSE "Hold"

evaluate(m, feature_values) ==
    IF m.kind = "rsi_reversion" THEN RsiReversionEvaluate(m, feature_values)
    ELSE SmaCrossEvaluate(m, feature_values)

RsiReversionModel(name, input_name, oversold, overbought) ==
    [kind |-> "rsi_reversion", name |-> name, input_name |-> input_name,
     oversold |-> oversold, overbought |-> overbought,
     required_inputs |-> <<input_name>>]

SmaCrossModel(name, short_input, long_input) ==
    [kind |-> "sma_cross", name |-> name, short_input |-> short_input,
     long_input |-> long_input,
     required_inputs |-> <<short_input, long_input>>]

build_default_model ==
    RsiReversionModel("rsi_reversion_default", "rsi_14", R(30), R(70))

(***************************************************************************)
(* BacktestEngine                                                          *)
(***************************************************************************)
RECURSIVE PositionValue(_, _)
PositionValue(lots, mark_price) ==
    IF lots = <<>> THEN Zero
    ELSE RAdd(RMul(Head(lots).quantity, mark_price),
              PositionValue(Tail(lots), mark_price))

EquityOf(c, lots, mark_price) == RAdd(c, PositionValue(lots, mark_price))

current_equity(mark_price) == EquityOf(cash, open_lots, mark_price)

\* Mutant: the equity is taken before the step's action is applied.
record_equity_before_action(mark_price) ==
    equity_curve' = Append(equity_curve, EquityOf(cash, open_lots, mark_price))

\* Pushes the equity of the state the step leaves behind.
record_equity(mark_price) ==
    equity_curve' = Append(equity_curve, EquityOf(cash', open_lots', mark_price))

\* Mutant: the limit compared with > instead of >=.
hit_max_entries_off_by_one ==
    LET max_entries == settings.risk.max_entries_per_position
    IN  max_entries > 0 /\ Len(open_lots) > max_entries

hit_max_entries ==
    LET max_entries == settings.risk.max_entries_per_position
    IN  max_entries > 0 /\ Len(open_lots) >= max_entries

\* Mutant: the comparison with >= instead of >.
cooldown_elapsed_inclusive(fill_index) ==
    IF ~last_entry_fill_index.some THEN TRUE
    ELSE LET cooldown == settings.risk.cooldown_bars
         IN  fill_index >= last_entry_fill_index.v + cooldown

\* Mutant: the cooldown left out of the comparison.
cooldown_elapsed_ignores_cooldown(fill_index) ==
    IF ~last_entry_fill_index.some THEN TRUE
    ELSE fill_index > last_entry_fill_index.v

cooldown_elapsed(fill_index) ==
    IF ~last_entry_fill_index.some THEN TRUE
    ELSE LET cooldown == settings.risk.cooldown_bars
         IN  fill_index > last_entry_fill_index.v + cooldown

FeeRate == resolve_fee_bps(exchange, settings.costs.fee_bps_overrides)

\* Mutant: the fill priced at the signal bar's own open.
BuyFillPrice_signal_bar(idx) ==
    apply_slippage(At(candles, idx).open, settings.costs.slippage_bps, TRUE)

BuyFillPrice(idx) ==
    apply_slippage(At(candles, idx + 1).open, settings.costs.slippage_bps, TRUE)

\* Mutant: the whole cash counts as affordable, fee or not.
BuyNotional_ignores_fee(idx) ==
    LET equity == current_equity(At(candles, idx).close)
        target_notional ==
            RDiv(RMul(equity, settings.entry_size_percent), R(100))
    IN  RMin(target_notional, cash)

BuyNotional(idx) ==
    LET fee_multiplier == RAdd(One, RDiv(FeeRate, R(BpsDenominator)))
        equity == current_equity(At(candles, idx).close)
        target_notional ==
            RDiv(RMul(equity, settings.entry_size_percent), R(100))
        affordable_notional == RDiv(cash, fee_multiplier)
    IN  RMin(target_notional, affordable_notional)

\* TRUE when try_buy returns early without touching the engine.
BuyReturnsEarly(idx) ==
    \/ idx + 1 >= Len(candles)
    \/ hit_max_entries
    \/ ~cooldown_elapsed(idx + 1)
    \/ RLe(BuyNotional(idx), Zero)
    \/ RLe(BuyFillPrice(idx), Zero)

NewLot(idx) ==
    LET notional == BuyNotional(idx)
        fill_price == BuyFillPrice(idx)
    IN  [entry_time |-> At(candles, idx + 1).open_time,
         entry_price |-> fill_price,
         quantity |-> RDiv(notional, fill_price),
         fee_paid |-> RDiv(RMul(notional, FeeRate), R(BpsDenominator))]

\* Mutant: a Buy rejected for its price or size has already paid.
try_buy_pays_when_rejected(idx) ==
    IF idx + 1 >= Len(candles) \/ hit_max_entries \/ ~cooldown_elapsed(idx + 1)
    THEN /\ UNCHANGED <<cash, open_lots, last_entry_fill_index>>
         /\ accepted_buys' = accepted_buys
    ELSE IF RLe(BuyNotional(idx), Zero) \/ RLe(BuyFillPrice(idx), Zero)
    THEN /\ cash' = RSub(cash, BuyNotional(idx))
         /\ UNCHANGED <<open_lots, last_entry_fill_index>>
         /\ accepted_buys' = accepted_buys
    ELSE LET lot == NewLot(idx)
         IN  /\ cash' = RSub(cash, RAdd(BuyNotional(idx), lot.fee_paid))
             /\ open_lots' = Append(open_lots, lot)
             /\ last_entry_fill_index' = Some(idx + 1)
             /\ accepted_buys' = accepted_buys + 1

\* Mutant: the entry index is recorded before the no-op check.
try_buy_marks_entry_early(idx) ==
    IF idx + 1 >= Len(candles) \/ hit_max_entries \/ ~cooldown_elapsed(idx + 1)
    THEN /\ UNCHANGED <<cash, open_lots, last_entry_fill_index>>
         /\ accepted_buys' = accepted_buys
    ELSE IF RLe(BuyNotional(idx), Zero) \/ RLe(BuyFillPrice(idx), Zero)
    THEN /\ UNCHANGED <<cash, open_lots>>
         /\ last_entry_fill_index' = Some(idx + 1)
         /\ accepted_buys' = accepted_buys
    ELSE LET lot == NewLot(idx)
         IN  /\ cash' = RSub(cash, RAdd(BuyNotional(idx), lot.fee_paid))
             /\ open_lots' = Append(open_lots, lot)
             /\ last_entry_fill_index' = Some(idx + 1)
             /\ accepted_buys' = accepted_buys + 1

try_buy(idx) ==
    IF BuyReturnsEarly(idx)
    THEN /\ UNCHANGED <<cash, open_lots, last_entry_fill_index>>
         /\ accepted_buys' = accepted_buys
    ELSE LET lot == NewLot(idx)
         IN  /\ cash' = RSub(cash, RAdd(BuyNotional(idx), lot.fee_paid))
             /\ open_lots' = Append(open_lots, lot)
             /\ last_entry_fill_index' = Some(idx + 1)
             /\ accepted_buys' = accepted_buys + 1

\* Mutant: the entry fee is not taken off the net result.
CloseLot_forgets_entry_fee(lot, fill_price, exit_time, reason) ==
    LET exit_notional == RMul(fill_price, lot.quantity)
        exit_fee == RDiv(RMul(exit_notional, FeeRate), R(BpsDenominator))
        gross_pnl == RMul(RSub(fill_price, lot.entry_price), lot.quantity)
    IN  [run_id |-> "", exchange |-> exchange,
         entry_time |-> lot.entry_time, exit_time |-> exit_time,
         entry_price |-> lot.entry_price, exit_price |-> fill_price,
         quantity |-> lot.quantity, gross_pnl |-> gross_pnl,
         net_pnl |-> RSub(gross_pnl, exit_fee),
         fee_paid |-> RAdd(lot.fee_paid, exit_fee),
         reason |-> reason]

CloseLot(lot, fill_price, exit_time, reason) ==
    LET exit_notional == RMul(fill_price, lot.quantity)
        exit_fee == RDiv(RMul(exit_notional, FeeRate), R(BpsDenominator))
        gross_pnl == RMul(RSub(fill_price, lot.entry_price), lot.quantity)
    IN  [run_id |-> "", exchange |-> exchange,
         entry_time |-> lot.entry_time, exit_time |-> exit_time,
         entry_price |-> lot.entry_price, exit_price |-> fill_price,
         quantity |-> lot.quantity, gross_pnl |-> gross_pnl,
         net_pnl |-> RSub(RSub(gross_pnl, lot.fee_paid), exit_fee),
         fee_paid |-> RAdd(lot.fee_paid, exit_fee),
         reason |-> reason]

\* exit_notional - exit_fee of one lot, the amount credited to cash
CloseProceeds(lot, fill_price) ==
    LET exit_notional == RMul(fill_price, lot.quantity)
        exit_fee == RDiv(RMul(exit_notional, FeeRate), R(BpsDenominator))
    IN  RSub(exit_notional, exit_fee)

RECURSIVE CashAfterClose(_, _, _)
CashAfterClose(c, lots, fill_price) ==
    IF lots = <<>> THEN c
    ELSE CashAfterClose(RAdd(c, CloseProceeds(Head(lots), fill_price)),
                        Tail(lots), fill_price)

ClosedTrades(lots, fill_price, exit_time, reason) ==
    [k \in 1..Len(lots) |-> CloseLot(lots[k], fill_price, exit_time, reason)]

\* Mutant: only the oldest lot is closed, the others stay open.
close_all_lots_first_only(fill_price, exit_time, reason) ==
    /\ cash' = RAdd(cash, CloseProceeds(Head(open_lots), fill_price))
    /\ trades' = Append(trades, CloseLot(Head(open_lots), fill_price, exit_time, reason))
    /\ open_lots' = Tail(open_lots)

\* Mutant: the lots are iterated without being drained.
close_all_lots_no_drain(fill_price, exit_time, reason) ==
    /\ cash' = CashAfterClose(cash, open_lots, fill_price)
    /\ trades' = trades \o ClosedTrades(open_lots, fill_price, exit_time, reason)
    /\ open_lots' = open_lots

close_all_lots(fill_price, exit_time, reason) ==
    /\ cash' = CashAfterClose(cash, open_lots, fill_price)
    /\ trades' = trades \o ClosedTrades(open_lots, fill_price, exit_time, reason)
    /\ open_lots' = <<>>

SellFillPrice(idx) ==
    apply_slippage(At(candles, idx + 1).open, settings.costs.slippage_bps, FALSE)

\* Mutant: the exit is stamped with the signal bar's time.
try_sell_signal_bar_time(idx, reason) ==
    IF open_lots = <<>> \/ idx + 1 >= Len(candles)
    THEN UNCHANGED <<cash, open_lots, trades>>
    ELSE close_all_lots(SellFillPrice(idx), At(candles, idx).open_time, reason)

try_sell(idx, reason) ==
    IF open_lots = <<>> \/ idx + 1 >= Len(candles)
    THEN UNCHANGED <<cash, open_lots, trades>>
    ELSE close_all_lots(SellFillPrice(idx), At(candles, idx + 1).open_time, reason)

\* Mutant: the forced close priced at the last candle's open.
ForcedFillPrice_last_open ==
    apply_slippage(Last(candles).open, settings.costs.slippage_bps, FALSE)

ForcedFillPrice ==
    apply_slippage(Last(candles).close, settings.costs.slippage_bps, FALSE)

force_close ==
    IF open_lots = <<>>
    THEN /\ equity_curve' = Append(equity_curve, cash)
         /\ UNCHANGED <<cash, open_lots, trades>>
    ELSE /\ close_all_lots(ForcedFillPrice, Last(candles).open_time, "forced_exit")
         /\ equity_curve' = Append(equity_curve, cash')

(***************************************************************************)
(* execute: one action per iteration of the loop, one for the final close  *)
(***************************************************************************)
InLoop == pc = "loop" /\ index < Len(candles) - 1

Features == collect_feature_values(model, input_series, index)

Decision == IF Features.some THEN evaluate(model, Features.v) ELSE "Skip"

StepSkip ==
    /\ InLoop
    /\ ~Features.some
    /\ UNCHANGED <<cash, open_lots, trades, last_entry_fill_index, accepted_buys>>
    /\ record_equity(At(candles, index).close)
    /\ action' = "Skip"
    /\ index' = index + 1
    /\ UNCHANGED <<inputs, pc, outside>>

StepBuy ==
    /\ InLoop
    /\ Decision = "Buy"
    /\ try_buy(index)
    /\ UNCHANGED trades
    /\ record_equity(At(candles, index).close)
    /\ action' = "Buy"
    /\ index' = index + 1
    /\ UNCHANGED <<inputs, pc, outside>>

\* Mutant: a Sell that closes lots also forgets the last entry.
StepSell_resets_cooldown ==
    /\ InLoop
    /\ Decision = "Sell"
    /\ try_sell(index, "model_sell")
    /\ last_entry_fill_index' =
          IF open_lots = <<>> \/ index + 1 >= Len(candles)
          THEN last_entry_fill_index ELSE None
    /\ UNCHANGED accepted_buys
    /\ record_equity(At(candles, index).close)
    /\ action' = "Sell"
    /\ index' = index + 1
    /\ UNCHANGED <<inputs, pc, outside>>

StepSell ==
    /\ InLoop
    /\ Decision = "Sell"
    /\ try_sell(index, "model_sell")
    /\ UNCHANGED <<last_entry_fill_index, accepted_buys>>
    /\ record_equity(At(candles, index).close)
    /\ action' = "Sell"
    /\ index' = index + 1
    /\ UNCHANGED <<inputs, pc, outside>>

StepHold ==
    /\ InLoop
    /\ Decision = "Hold"
    /\ UNCHANGED <<cash, open_lots, trades, last_entry_fill_index, accepted_buys>>
    /\ record_equity(At(candles, index).close)
    /\ action' = "Hold"
    /\ index' = index + 1
    /\ UNCHANGED <<inputs, pc, outside>>

ForceClose ==
    /\ pc = "loop"
    /\ index >= Len(candles) - 1
    /\ force_close
    /\ pc' = "done"
    /\ action' = "ForceClose"
    /\ UNCHANGED <<inputs, index, last_entry_fill_index, accepted_buys, outside>>


(***************************************************************************)
(* Inputs of a run                                                         *)
(***************************************************************************)
\* Seconds between two candles (strictly ascending open_time).
CandleInterval == 60

\* (open, close) of a candle; prices are non-negative.
CandleShapes == {<<0, 4>>, <<4, 2>>}

Candle(k, shape) ==
    [open_time |-> k * CandleInterval, open |-> R(shape[1]), close |-> R(shape[2])]

CandleHistories ==
    UNION {{[k \in 1..n |-> Candle(k - 1, shapes[k])] :
                shapes \in [1..n -> CandleShapes]} : n \in 2..MaxCandles}

RiskPolicies ==
    [max_entries_per_position : 0..2, cooldown_bars : 0..2]

\* Costs with the exchange they are resolved for: an override that applies,
\* and an override map without the engine's exchange (default fee).
CostSetups ==
    {[exchange |-> "upbit",
      costs |-> [slippage_bps |-> R(0), fee_bps_overrides |-> [e \in {"upbit"} |-> R(0)]]],
     [exchange |-> "binance",
      costs |-> [slippage_bps |-> R(5000),
                 fee_bps_overrides |-> [e \in {"upbit", "binance"} |->
                                          IF e = "upbit" THEN R(0) ELSE R(2500)]]]}

SettingsOf(cost, risk, percent) ==
    [initial_capital |-> R(1000), entry_size_percent |-> percent,
     costs |-> cost, risk |-> risk]

NoRiskLimits == [max_entries_per_position |-> 0, cooldown_bars |-> 0]

\* (exchange, settings) of a run: every risk policy under every cost setup
\* with half of the equity per entry, and the whole equity per entry under
\* no risk limits.
RunSetups ==
    {[exchange |-> setup.exchange,
      settings |-> SettingsOf(setup.costs, risk, R(50))] :
        setup \in CostSetups, risk \in RiskPolicies}
    \cup {[exchange |-> setup.exchange,
           settings |-> SettingsOf(setup.costs, NoRiskLimits, R(100))] :
            setup \in CostSetups}

\* Indicator outputs: below, at and above the thresholds of the models.
RsiValues == {R(20), R(30), R(80)}

SeqsUpTo(S, n) == UNION {[1..m -> S] : m \in 0..n}

\* Short moving-average outputs, below and above the long average.
SmaShortValues == {R(40), R(60)}
SmaLongValue == R(50)

Flat(n, v) == [k \in 1..n |-> v]

SmaCrossSetup(n, short_values, with_long) ==
    [model |-> SmaCrossModel("sma_cross", "sma_short", "sma_long"),
     series |->
        [name \in (IF with_long THEN {"sma_short", "sma_long"} ELSE {"sma_short"}) |->
            IF name = "sma_short" THEN align_series(n, short_values)
            ELSE align_series(n, Flat(n - 1, SmaLongValue))]]

\* (model, input_series) pairs for a history of n candles: the default RSI
\* model over every right-aligned series, an SMA-cross model whose long
\* average lacks its first value, and an SMA-cross model whose long input
\* is not among the series at all.
ModelSetups(n) ==
    {[model |-> build_default_model,
      series |-> [name \in {"rsi_14"} |-> align_series(n, values)]] :
        values \in SeqsUpTo(RsiValues, n)}
    \cup {SmaCrossSetup(n, sv, TRUE) : sv \in [1..n -> SmaShortValues]}
    \cup {SmaCrossSetup(n, Flat(n, SmaLongValue), w) : w \in BOOLEAN}

\* No configuration loaded, no run in progress, no second engine, no call.
Unset == [some |-> FALSE]

\* Live mode is not running.
LiveIdle ==
    /\ latest_candles = Unset
    /\ rx = <<>>
    /\ now = 0
    /\ notified = <<>>
    /\ live_pc = "none"
    /\ historical_handles = <<>>
    /\ task_handles = <<>>
    /\ sub_pc = "none"
    /\ cancel = FALSE
    /\ tx = <<>>

OutsideIdle ==
    /\ config = Unset
    /\ storage = Unset
    /\ run_pc = "none"
    /\ run_record = Unset
    /\ run_result = Unset
    /\ save_calls = 0
    /\ prev_output = Unset
    /\ parked = Unset
    /\ solo = Unset
    /\ LiveIdle
    /\ fn_args = Unset
    /\ fn_ret = Unset

Init ==
    /\ candles \in CandleHistories
    /\ \E setup \in RunSetups :
          /\ settings = setup.settings
          /\ exchange = setup.exchange
    /\ \E ms \in ModelSetups(Len(candles)) :
          /\ model = ms.model
          /\ input_series = ms.series
    /\ cash = settings.initial_capital
    /\ last_entry_fill_index = None
    /\ open_lots = <<>>
    /\ trades = <<>>
    /\ equity_curve = <<>>
    /\ pc = "loop"
    /\ index = 0
    /\ action = "None"
    /\ accepted_buys = 0
    /\ OutsideIdle

Next ==
    \/ StepSkip
    \/ StepBuy
    \/ StepSell
    \/ StepHold
    \/ ForceClose

Spec == Init /\ [][Next]_vars


(***************************************************************************)
(* Indicators and signal inputs (src/src/indicator, signal_input.rs)       *)
(***************************************************************************)
\* Result<T, E>
Ok(x) == [ok |-> TRUE, v |-> x]
Err(e) == [ok |-> FALSE, err |-> e]

\* toml::Value
IntegerValue(k) == [type |-> "integer", v |-> k]
FloatValue(x) == [type |-> "float", v |-> x]
StringValue(s) == [type |-> "string", v |-> s]
NoParams == [key \in {} |-> 0]

\* Defaults of the builders.
DefaultRsiPeriod == 14
DefaultSmaPeriod == 20
DefaultEmaPeriod == 20
DefaultBollingerPeriod == 20
DefaultVolumePeriod == 20
DefaultStdDevMultiplier == 2
DefaultMacdFastPeriod == 12
DefaultMacdSlowPeriod == 26
DefaultMacdSignalPeriod == 9
DefaultOversold == 30
DefaultOverbought == 70

RMax(a, b) == IF RLe(a, b) THEN b ELSE a

RECURSIVE RSum(_)
RSum(xs) == IF xs = <<>> THEN Zero ELSE RAdd(Head(xs), RSum(Tail(xs)))

close_prices(cs) == [k \in 1..Len(cs) |-> cs[k].close]

\* Sma::new / Rsi::new
IndicatorNew(kind, period) ==
    IF period = 0 THEN Err("InvalidParameter")
    ELSE Ok([kind |-> kind, period |-> period])

\* Sma::calculate_prices: one mean per window of `period` prices.
SmaCalculate(period, prices) ==
    IF Len(prices) < period THEN Err("InsufficientData")
    ELSE Ok([k \in 1..(Len(prices) - period + 1) |->
                RDiv(RSum(SubSeq(prices, k, k + period - 1)), R(period))])

rsi_value(avg_gain, avg_loss) ==
    IF avg_loss = Zero THEN R(100)
    ELSE RSub(R(100), RDiv(R(100), RAdd(One, RDiv(avg_gain, avg_loss))))

Gains(deltas) == [k \in 1..Len(deltas) |-> RMax(deltas[k], Zero)]
Losses(deltas) == [k \in 1..Len(deltas) |-> RMax(RSub(Zero, deltas[k]), Zero)]

\* Wilder smoothing over the deltas after the seed window.
RECURSIVE RsiSmooth(_, _, _, _)
RsiSmooth(period, deltas, avg_gain, avg_loss) ==
    IF deltas = <<>> THEN <<>>
    ELSE LET gain == RMax(Head(deltas), Zero)
             loss == RMax(RSub(Zero, Head(deltas)), Zero)
             g == RDiv(RAdd(RMul(avg_gain, R(period - 1)), gain), R(period))
             l == RDiv(RAdd(RMul(avg_loss, R(period - 1)), loss), R(period))
         IN  <<rsi_value(g, l)>> \o RsiSmooth(period, Tail(deltas), g, l)

RsiRequiredCandles(period) == period + 1

RsiCalculate(period, prices) ==
    IF Len(prices) < RsiRequiredCandles(period) THEN Err("InsufficientData")
    ELSE LET deltas == [k \in 1..(Len(prices) - 1) |-> RSub(prices[k + 1], prices[k])]
             seed == SubSeq(deltas, 1, period)
             avg_gain == RDiv(RSum(Gains(seed)), R(period))
             avg_loss == RDiv(RSum(Losses(seed)), R(period))
         IN  Ok(<<rsi_value(avg_gain, avg_loss)>>
                \o RsiSmooth(period, SubSeq(deltas, period + 1, Len(deltas)),
                             avg_gain, avg_loss))

volumes(cs) == [k \in 1..Len(cs) |-> cs[k].volume]

\* The EMA of the prices after the seed window.
RECURSIVE EmaSmooth(_, _, _)
EmaSmooth(k, prices, ema) ==
    IF prices = <<>> THEN <<>>
    ELSE LET next == RAdd(RMul(Head(prices), k), RMul(ema, RSub(One, k)))
         IN  <<next>> \o EmaSmooth(k, Tail(prices), next)

\* Mutant: the seed value is left out of the output.
EmaCalculate_drops_seed(period, prices) ==
    IF Len(prices) < period THEN Err("InsufficientData")
    ELSE LET k == RDiv(R(2), R(period + 1))
             seed == RDiv(RSum(SubSeq(prices, 1, period)), R(period))
         IN  Ok(EmaSmooth(k, SubSeq(prices, period + 1, Len(prices)), seed))

\* Ema::calculate_prices: the seed is the mean of the first `period` prices.
EmaCalculate(period, prices) ==
    IF Len(prices) < period THEN Err("InsufficientData")
    ELSE LET k == RDiv(R(2), R(period + 1))
             seed == RDiv(RSum(SubSeq(prices, 1, period)), R(period))
         IN  Ok(<<seed>> \o EmaSmooth(k, SubSeq(prices, period + 1, Len(prices)), seed))

\* VolumeMA::calculate
VolumeMaCalculate(period, vols) ==
    IF Len(vols) < period THEN Err("InsufficientData")
    ELSE Ok([k \in 1..(Len(vols) - period + 1) |->
                RDiv(RSum(SubSeq(vols, k, k + period - 1)), R(period))])

\* BollingerBands::new
BollingerNew(period, std_dev_multiplier) ==
    IF period = 0 THEN Err("InvalidParameter")
    ELSE IF RLe(std_dev_multiplier, Zero) THEN Err("InvalidParameter")
    ELSE Ok([kind |-> "bollinger", period |-> period,
             std_dev_multiplier |-> std_dev_multiplier])

\* BollingerBands::calculate: the middle band of calculate_bands, one per
\* window that has an average (the outer bands take a square root and are
\* not modelled).
BollingerCalculate(period, prices) ==
    IF Len(prices) < period THEN Err("InsufficientData")
    ELSE LET sma == SmaCalculate(period, prices)
             windows == Len(prices) - period + 1
         IN  IF ~sma.ok THEN sma
             ELSE Ok([k \in 1..(IF windows <= Len(sma.v) THEN windows ELSE Len(sma.v))
                        |-> sma.v[k]])

\* Macd::new
MacdNew(fast_period, slow_period, signal_period) ==
    IF fast_period = 0 \/ slow_period = 0 \/ signal_period = 0
        THEN Err("InvalidParameter")
    ELSE IF fast_period >= slow_period THEN Err("InvalidParameter")
    ELSE Ok([kind |-> "macd", fast_period |-> fast_period,
             slow_period |-> slow_period, signal_period |-> signal_period])

MacdRequiredCandles(indicator) == indicator.slow_period + indicator.signal_period

\* a.iter().zip(b.iter()).map(|(x, y)| x - y)
ZipSub(a, b) ==
    [k \in 1..(IF Len(a) <= Len(b) THEN Len(a) ELSE Len(b)) |-> RSub(a[k], b[k])]

\* macd_line: the fast EMA without its first `offset` values, minus the slow.
MacdLine(fast_ema, slow_ema, offset) ==
    ZipSub(SubSeq(fast_ema, offset + 1, Len(fast_ema)), slow_ema)

\* The MACD component of macd_line[signal_offset..] zipped with the signal
\* line and the histogram.
MacdValues(macd_line, signal_line, signal_offset) ==
    LET tail == SubSeq(macd_line, signal_offset + 1, Len(macd_line))
        histogram == ZipSub(tail, signal_line)
        n == IF Len(tail) <= Len(signal_line) THEN Len(tail) ELSE Len(signal_line)
    IN  [k \in 1..(IF n <= Len(histogram) THEN n ELSE Len(histogram)) |-> tail[k]]

\* signal_line = EMA(signal_period) of macd_line, then the result rows.
MacdSignal(indicator, macd_line) ==
    LET signal_line == EmaCalculate(indicator.signal_period, macd_line)
    IN  IF ~signal_line.ok THEN signal_line
        ELSE Ok(MacdValues(macd_line, signal_line.v, indicator.signal_period - 1))

MacdFromEmas(indicator, fast_ema, slow_ema) ==
    IF ~fast_ema.ok THEN fast_ema
    ELSE IF ~slow_ema.ok THEN slow_ema
    ELSE MacdSignal(indicator,
                    MacdLine(fast_ema.v, slow_ema.v,
                             indicator.slow_period - indicator.fast_period))

\* Macd::calculate: the MACD line of calculate_full.
MacdCalculate(indicator, prices) ==
    IF Len(prices) < MacdRequiredCandles(indicator) THEN Err("InsufficientData")
    ELSE MacdFromEmas(indicator,
                      EmaCalculate(indicator.fast_period, prices),
                      EmaCalculate(indicator.slow_period, prices))

\* Indicator::required_candles
IndicatorRequiredCandles(indicator) ==
    IF indicator.kind = "rsi" THEN RsiRequiredCandles(indicator.period)
    ELSE IF indicator.kind = "macd" THEN MacdRequiredCandles(indicator)
    ELSE indicator.period

\* Indicator::calculate
calculate(indicator, cs) ==
    IF indicator.kind = "sma" THEN SmaCalculate(indicator.period, close_prices(cs))
    ELSE IF indicator.kind = "ema" THEN EmaCalculate(indicator.period, close_prices(cs))
    ELSE IF indicator.kind = "bollinger"
        THEN BollingerCalculate(indicator.period, close_prices(cs))
    ELSE IF indicator.kind = "volume_ma"
        THEN VolumeMaCalculate(indicator.period, volumes(cs))
    ELSE IF indicator.kind = "macd" THEN MacdCalculate(indicator, close_prices(cs))
    ELSE RsiCalculate(indicator.period, close_prices(cs))

IndicatorInput(name, indicator) ==
    [name |-> name, kind |-> "indicator", indicator |-> indicator]
CloseInput(name) == [name |-> name, kind |-> "close"]

get_usize(cfg, key, default) ==
    IF key \in DOMAIN cfg.params /\ cfg.params[key].type = "integer"
    THEN cfg.params[key].v ELSE default

get_f64(cfg, key, default) ==
    IF key \in DOMAIN cfg.params /\ cfg.params[key].type = "float"
    THEN cfg.params[key].v ELSE default

build_input(cfg) ==
    IF cfg.kind = "close" THEN Ok(CloseInput(cfg.name))
    ELSE IF cfg.kind = "rsi" THEN
        LET made == IndicatorNew("rsi", get_usize(cfg, "period", DefaultRsiPeriod))
        IN  IF made.ok THEN Ok(IndicatorInput(cfg.name, made.v))
            ELSE Err("invalid RSI input")
    ELSE IF cfg.kind = "sma" THEN
        LET made == IndicatorNew("sma", get_usize(cfg, "period", DefaultSmaPeriod))
        IN  IF made.ok THEN Ok(IndicatorInput(cfg.name, made.v))
            ELSE Err("invalid SMA input")
    ELSE IF cfg.kind = "ema" THEN
        LET made == IndicatorNew("ema", get_usize(cfg, "period", DefaultEmaPeriod))
        IN  IF made.ok THEN Ok(IndicatorInput(cfg.name, made.v))
            ELSE Err("invalid EMA input")
    ELSE IF cfg.kind = "macd" THEN
        LET made == MacdNew(get_usize(cfg, "fast_period", DefaultMacdFastPeriod),
                            get_usize(cfg, "slow_period", DefaultMacdSlowPeriod),
                            get_usize(cfg, "signal_period", DefaultMacdSignalPeriod))
        IN  IF made.ok THEN Ok(IndicatorInput(cfg.name, made.v))
            ELSE Err("invalid MACD input")
    ELSE IF cfg.kind = "bollinger" THEN
        LET made == BollingerNew(get_usize(cfg, "period", DefaultBollingerPeriod),
                                 get_f64(cfg, "std_dev_multiplier",
                                         R(DefaultStdDevMultiplier)))
        IN  IF made.ok THEN Ok(IndicatorInput(cfg.name, made.v))
            ELSE Err("invalid bollinger input")
    ELSE IF cfg.kind = "volume_ma" THEN
        LET made == IndicatorNew("volume_ma", get_usize(cfg, "period", DefaultVolumePeriod))
        IN  IF made.ok THEN Ok(IndicatorInput(cfg.name, made.v))
            ELSE Err("invalid volume input")
    ELSE Err("unknown input kind")

\* The first failing input aborts; otherwise every input, in order.
build_inputs(configs) ==
    LET built == [k \in 1..Len(configs) |-> build_input(configs[k])]
        failed == {k \in 1..Len(configs) : ~built[k].ok}
    IN  IF failed = {} THEN Ok([k \in 1..Len(configs) |-> built[k].v])
        ELSE Err(built[CHOOSE k \in failed : \A j \in failed : k <= j].err)

build_default_inputs ==
    Ok(<<IndicatorInput("rsi_14", IndicatorNew("rsi", DefaultRsiPeriod).v)>>)

required_candles(input) ==
    IF input.kind = "close" THEN 1
    ELSE IndicatorRequiredCandles(input.indicator)

\* inputs.iter().map(required_candles).max().unwrap_or(1)
MaxRequired(ins) ==
    IF ins = <<>> THEN 1
    ELSE LET all == {required_candles(ins[k]) : k \in 1..Len(ins)}
         IN  CHOOSE m \in all : \A x \in all : x <= m

\* SignalInput::series
series(input, cs) ==
    IF input.kind = "close" THEN Ok([k \in 1..Len(cs) |-> Some(cs[k].close)])
    ELSE LET values == calculate(input.indicator, cs)
         IN  IF values.ok THEN Ok(align_series(Len(cs), values.v))
             ELSE Err("input failed")

\* A later input of the same name replaces the earlier one (HashMap::insert).
build_input_series(ins, cs) ==
    LET made == [k \in 1..Len(ins) |-> series(ins[k], cs)]
        failed == {k \in 1..Len(ins) : ~made[k].ok}
        names == {ins[k].name : k \in 1..Len(ins)}
        last(name) == CHOOSE k \in 1..Len(ins) :
                         /\ ins[k].name = name
                         /\ \A j \in 1..Len(ins) : ins[j].name = name => j <= k
    IN  IF failed = {} THEN Ok([name \in names |-> made[last(name)].v])
        ELSE Err("input failed")

(***************************************************************************)
(* Model construction (signal_model.rs, backtest.rs find_model)            *)
(***************************************************************************)
get_string(cfg, key, default) ==
    IF key \in DOMAIN cfg.params /\ cfg.params[key].type = "string"
    THEN cfg.params[key].v ELSE default

build_model(cfg) ==
    IF cfg.kind = "rsi_reversion" THEN
        Ok(RsiReversionModel(cfg.name, get_string(cfg, "input", "rsi_14"),
                             get_f64(cfg, "oversold", R(DefaultOversold)),
                             get_f64(cfg, "overbought", R(DefaultOverbought))))
    ELSE IF cfg.kind = "sma_cross" THEN
        Ok(SmaCrossModel(cfg.name, get_string(cfg, "short_input", "sma_short"),
                         get_string(cfg, "long_input", "sma_long")))
    ELSE Err("unknown model kind")

find_model(cfg, backtest) ==
    IF cfg.models = <<>> THEN Ok(build_default_model)
    ELSE LET found == {k \in 1..Len(cfg.models) : cfg.models[k].name = backtest.model}
         IN  IF found = {} THEN Err("model not found")
             ELSE build_model(cfg.models[CHOOSE k \in found : \A j \in found : k <= j])

(***************************************************************************)
(* Configuration validation (config.rs)                                    *)
(***************************************************************************)
TimeFrames == {"1m", "3m", "5m", "15m", "30m", "1h", "4h", "1d"}

Names(items) == {items[k].name : k \in 1..Len(items)}

Distinct(items) ==
    \A j, k \in 1..Len(items) : items[j].name = items[k].name => j = k

validate_input_and_model_names(cfg) ==
    IF ~Distinct(cfg.inputs) THEN Err("inputs: duplicate name")
    ELSE IF ~Distinct(cfg.models) THEN Err("models: duplicate name")
    ELSE Ok("unit")

\* Checks the inputs each model declares, and only when both lists are given.
validate_model_input_references(cfg) ==
    IF cfg.inputs = <<>> \/ cfg.models = <<>> THEN Ok("unit")
    ELSE IF \E k \in 1..Len(cfg.models) :
                \E j \in 1..Len(cfg.models[k].inputs) :
                    cfg.models[k].inputs[j] \notin Names(cfg.inputs)
         THEN Err("models.inputs contains unknown input")
         ELSE Ok("unit")

validate_backtest(cfg) ==
    IF ~cfg.backtest.some THEN Ok("unit")
    ELSE LET backtest == cfg.backtest.v
         IN  IF backtest.timeframe \notin TimeFrames
                THEN Err("backtest.timeframe is not valid")
             ELSE IF backtest.start_time >= backtest.end_time
                THEN Err("backtest.start_time must be before backtest.end_time")
             ELSE IF RLe(backtest.entry_size_percent, Zero)
                     \/ RGt(backtest.entry_size_percent, R(100))
                THEN Err("backtest.entry_size_percent must be in (0, 100]")
             ELSE IF RLe(backtest.initial_capital, Zero)
                THEN Err("backtest.initial_capital must be > 0")
             ELSE IF RLt(backtest.costs.slippage_bps, Zero)
                THEN Err("backtest.costs.slippage_bps must be >= 0")
             ELSE IF cfg.models # <<>> /\ backtest.model \notin Names(cfg.models)
                THEN Err("backtest.model is not defined")
             ELSE Ok("unit")

\* The checks of validate that concern inputs, models and the backtest.
validate(cfg) ==
    IF ~validate_input_and_model_names(cfg).ok
        THEN validate_input_and_model_names(cfg)
    ELSE IF ~validate_model_input_references(cfg).ok
        THEN validate_model_input_references(cfg)
    ELSE validate_backtest(cfg)

(***************************************************************************)
(* backtest::run                                                           *)
(***************************************************************************)
parse_exchange(name) ==
    IF name \in {"upbit", "binance"} THEN Ok(name) ELSE Err("unknown exchange")

\* Mutant: the peak stays at the first point of the curve.
RECURSIVE MaxDrawdownFrom_fixed_peak(_, _, _)
MaxDrawdownFrom_fixed_peak(rest, peak, max_drawdown) ==
    IF rest = <<>> THEN max_drawdown
    ELSE IF RLe(peak, Zero)
         THEN MaxDrawdownFrom_fixed_peak(Tail(rest), peak, max_drawdown)
         ELSE LET drawdown == RDiv(RSub(peak, Head(rest)), peak)
              IN  MaxDrawdownFrom_fixed_peak(Tail(rest), peak,
                                             IF RGt(drawdown, max_drawdown)
                                             THEN drawdown ELSE max_drawdown)

\* The loop of calculate_max_drawdown_pct over the rest of the curve.
RECURSIVE MaxDrawdownFrom(_, _, _)
MaxDrawdownFrom(rest, peak, max_drawdown) ==
    IF rest = <<>> THEN max_drawdown
    ELSE LET equity == Head(rest)
             p == IF RGt(equity, peak) THEN equity ELSE peak
         IN  IF RLe(p, Zero) THEN MaxDrawdownFrom(Tail(rest), p, max_drawdown)
             ELSE LET drawdown == RDiv(RSub(p, equity), p)
                  IN  MaxDrawdownFrom(Tail(rest), p,
                                      IF RGt(drawdown, max_drawdown)
                                      THEN drawdown ELSE max_drawdown)

calculate_max_drawdown_pct(curve) ==
    IF curve = <<>> THEN Zero
    ELSE RMul(MaxDrawdownFrom(curve, curve[1], Zero), R(100))

\* No engine exists: before BacktestEngine::new and after the run returned.
EngineIdle ==
    /\ cash = Zero
    /\ last_entry_fill_index = None
    /\ open_lots = <<>>
    /\ trades = <<>>
    /\ equity_curve = <<>>
    /\ pc = "idle"
    /\ index = 0
    /\ action = "None"
    /\ accepted_buys = 0

engine == <<cash, last_entry_fill_index, open_lots, trades, equity_curve, pc,
            index, action, accepted_buys>>

\* config::load: the run is only started on a configuration that validates.
LoadConfig ==
    /\ run_pc = "load"
    /\ IF validate(config).ok
       THEN run_pc' = "run" /\ UNCHANGED run_result
       ELSE run_pc' = "returned" /\ run_result' = Err(validate(config).err)
    /\ UNCHANGED <<inputs, engine, config, storage, run_record, save_calls,
                   prev_output, parked, solo, live, fn_args, fn_ret>>

\* run up to the await of get_candles_in_range, which may fail.
RunLoadCandles ==
    /\ run_pc = "run"
    /\ \E loaded \in {Ok(storage.candles), Err("storage")} :
        LET failure ==
                IF ~config.backtest.some THEN "[backtest] section is required"
                ELSE IF ~parse_exchange(config.backtest.v.exchange).ok
                    THEN "unknown exchange"
                ELSE IF config.backtest.v.timeframe \notin TimeFrames
                    THEN "unknown timeframe"
                ELSE IF ~loaded.ok THEN "failed to load candles"
                ELSE "none"
        IN  IF failure = "none"
            THEN /\ candles' = loaded.v
                 /\ run_pc' = "loaded"
                 /\ UNCHANGED run_result
            ELSE /\ run_pc' = "returned"
                 /\ run_result' = Err(failure)
                 /\ UNCHANGED candles
    /\ UNCHANGED <<settings, exchange, model, input_series, engine, config,
                   storage, run_record, save_calls, prev_output, parked, solo, live,
                   fn_args, fn_ret>>

BuiltInputs ==
    IF config.inputs = <<>> THEN build_default_inputs
    ELSE build_inputs(config.inputs)

\* Mutant: the check for at least 2 candles is missing.
PrepareFailure_allows_one_candle ==
    IF ~BuiltInputs.ok THEN BuiltInputs.err
    ELSE IF Len(candles) < MaxRequired(BuiltInputs.v) THEN "insufficient candles"
    ELSE IF ~find_model(config, settings).ok THEN find_model(config, settings).err
    ELSE IF ~build_input_series(BuiltInputs.v, candles).ok THEN "input failed"
    ELSE "none"

\* The first precondition of run that the loaded candles and the
\* configuration violate, in the order run checks them.
PrepareFailure ==
    IF Len(candles) < 2 THEN "backtest requires at least 2 candles"
    ELSE IF ~BuiltInputs.ok THEN BuiltInputs.err
    ELSE IF Len(candles) < MaxRequired(BuiltInputs.v) THEN "insufficient candles"
    ELSE IF ~find_model(config, settings).ok THEN find_model(config, settings).err
    ELSE IF ~build_input_series(BuiltInputs.v, candles).ok THEN "input failed"
    ELSE "none"

\* Mutant: the engine starts from the capital the previous run ended with.
BacktestEngineNew_carries_capital ==
    /\ cash' = (IF prev_output.some THEN prev_output.run.final_equity
                ELSE settings.initial_capital)
    /\ last_entry_fill_index' = None
    /\ open_lots' = <<>>
    /\ trades' = <<>>
    /\ equity_curve' = <<>>

\* BacktestEngine::new
BacktestEngineNew ==
    /\ cash' = settings.initial_capital
    /\ last_entry_fill_index' = None
    /\ open_lots' = <<>>
    /\ trades' = <<>>
    /\ equity_curve' = <<>>

\* run from the loaded candles to BacktestEngine::new.
RunPrepare ==
    /\ run_pc = "loaded"
    /\ IF PrepareFailure = "none"
       THEN /\ model' = find_model(config, settings).v
            /\ input_series' = build_input_series(BuiltInputs.v, candles).v
            /\ exchange' = parse_exchange(settings.exchange).v
            /\ BacktestEngineNew
            /\ pc' = "loop"
            /\ index' = 0
            /\ run_pc' = "execute"
            /\ UNCHANGED run_result
       ELSE /\ run_pc' = "returned"
            /\ run_result' = Err(PrepareFailure)
            /\ UNCHANGED <<model, input_series, exchange, cash, pc, index,
                           last_entry_fill_index, open_lots, trades, equity_curve>>
    /\ UNCHANGED <<settings, candles, action, accepted_buys, config, storage,
                   run_record, save_calls, prev_output, parked, solo, live, fn_args,
                   fn_ret>>

\* (run_id, created_at) pairs that Uuid::new_v4 and Utc::now may produce.
Stamps == {[run_id |-> "run-a", created_at |-> 1],
           [run_id |-> "run-b", created_at |-> 2]}

Wins(ts) == Cardinality({k \in 1..Len(ts) : RGt(ts[k].net_pnl, Zero)})

\* Mutant: a trade that breaks even counts as a win.
win_rate_pct_counts_break_even(ts) ==
    IF ts = <<>> THEN Zero
    ELSE RMul(RDiv(R(Cardinality({k \in 1..Len(ts) : ~RLt(ts[k].net_pnl, Zero)})),
                   R(Len(ts))), R(100))

win_rate_pct(ts) ==
    IF ts = <<>> THEN Zero
    ELSE RMul(RDiv(R(Wins(ts)), R(Len(ts))), R(100))

\* Mutant: the trades keep their placeholder id.
StampTrades_not_stamped(ts, run_id) == ts

StampTrades(ts, run_id) == [k \in 1..Len(ts) |-> [ts[k] EXCEPT !.run_id = run_id]]

\* build_run and the clone of the engine's trades; the id is fresh.
RunBuildRun ==
    /\ run_pc = "execute"
    /\ pc = "done"
    /\ \E stamp \in Stamps :
        /\ prev_output.some => stamp.run_id # prev_output.run.run_id
        /\ run_record' =
              [some |-> TRUE,
               run_id |-> stamp.run_id,
               model_name |-> model.name,
               exchange |-> exchange,
               symbol |-> settings.symbol,
               timeframe |-> settings.timeframe,
               start_time |-> settings.start_time,
               end_time |-> settings.end_time,
               initial_capital |-> settings.initial_capital,
               final_equity |-> cash,
               total_return_pct |->
                  RMul(RSub(RDiv(cash, settings.initial_capital), One), R(100)),
               max_drawdown_pct |-> calculate_max_drawdown_pct(equity_curve),
               win_rate_pct |-> win_rate_pct(trades),
               trade_count |-> Len(trades),
               created_at |-> stamp.created_at]
        /\ trades' = StampTrades(trades, stamp.run_id)
    /\ run_pc' = "save"
    /\ UNCHANGED <<inputs, cash, last_entry_fill_index, open_lots, equity_curve,
                   pc, index, action, accepted_buys, config, storage, run_result,
                   save_calls, prev_output, parked, solo, live, fn_args, fn_ret>>

\* The await of save_backtest_results, which may fail, and the return.
RunSave ==
    /\ run_pc = "save"
    /\ save_calls' = save_calls + 1
    /\ \/ /\ storage' = [storage EXCEPT
                            !.runs = Append(@, run_record),
                            !.trades = @ \o trades]
          /\ run_result' = Ok([run |-> run_record, trades |-> trades])
       \/ /\ storage' = storage
          /\ run_result' = Err("failed to save backtest results")
    /\ run_pc' = "returned"
    /\ UNCHANGED <<inputs, engine, config, run_record, prev_output, parked,
                   solo, live, fn_args, fn_ret>>

\* The program is started a second time on the same configuration and the
\* same stored candles; the engine and the locals of the first run are gone.
RunAgain ==
    /\ run_pc = "returned"
    /\ run_record.some
    /\ ~prev_output.some
    /\ prev_output' = [some |-> TRUE, run |-> run_record, trades |-> trades,
                       result |-> run_result]
    /\ run_pc' = "load"
    /\ run_record' = Unset
    /\ run_result' = Unset
    /\ save_calls' = 0
    /\ cash' = Zero
    /\ last_entry_fill_index' = None
    /\ open_lots' = <<>>
    /\ trades' = <<>>
    /\ equity_curve' = <<>>
    /\ pc' = "idle"
    /\ index' = 0
    /\ action' = "None"
    /\ accepted_buys' = 0
    /\ candles' = <<>>
    /\ model' = Unset
    /\ input_series' = Unset
    /\ exchange' = "none"
    /\ UNCHANGED <<settings, config, storage, parked, solo, live, fn_args, fn_ret>>

(***************************************************************************)
(* Configurations and stored candles of a run                              *)
(***************************************************************************)
InputConfig(name, kind, params) == [name |-> name, kind |-> kind, params |-> params]

Period(p) == [key \in {"period"} |-> IntegerValue(p)]

FastRsi == InputConfig("rsi_14", "rsi", Period(1))

InputLists ==
    {<<>>,
     <<FastRsi>>,
     <<InputConfig("sma_short", "sma", Period(1)),
       InputConfig("sma_long", "sma", Period(2))>>,
     <<InputConfig("px", "close", NoParams)>>,
     <<FastRsi, InputConfig("slow", "rsi", Period(3))>>,
     <<FastRsi, InputConfig("vwap_1", "vwap", NoParams)>>,
     <<InputConfig("sma_long", "sma", Period(0))>>,
     <<InputConfig("px", "close", NoParams), InputConfig("px", "close", NoParams)>>}

TradingModelConfig(name, kind, declared, params) ==
    [name |-> name, kind |-> kind, inputs |-> declared, params |-> params]

\* Thresholds on the raw close: 2 is oversold, 4 is overbought.
PriceParams ==
    [key \in {"input", "oversold", "overbought"} |->
        IF key = "input" THEN StringValue("px") ELSE FloatValue(R(3))]

ModelLists ==
    {<<>>,
     <<TradingModelConfig("m", "rsi_reversion", <<"rsi_14">>, NoParams)>>,
     <<TradingModelConfig("m", "sma_cross", <<"sma_short", "sma_long">>, NoParams)>>,
     <<TradingModelConfig("m", "rsi_reversion", <<"px">>, PriceParams)>>,
     <<TradingModelConfig("m", "sma_cross", <<>>, NoParams)>>,
     <<TradingModelConfig("m", "rsi_reversion", <<"px">>, NoParams)>>,
     <<TradingModelConfig("m", "grid", <<>>, NoParams)>>,
     <<TradingModelConfig("other", "sma_cross", <<>>, NoParams),
       TradingModelConfig("m", "rsi_reversion", <<"rsi_14">>, NoParams)>>}

BacktestConfig(exchange_name, timeframe, model_name, costs) ==
    [exchange |-> exchange_name, symbol |-> "KRW-BTC", timeframe |-> timeframe,
     model |-> model_name, start_time |-> 0,
     end_time |-> (MaxCandles + 1) * CandleInterval,
     initial_capital |-> R(1000), entry_size_percent |-> R(50),
     costs |-> costs, risk |-> NoRiskLimits]

AppConfig(input_list, model_list, backtest) ==
    [inputs |-> input_list, models |-> model_list, backtest |-> backtest]

\* Every input list with every model list under both cost setups, and one
\* configuration for each way the backtest section itself can be wrong.
RunConfigs ==
    {AppConfig(il, ml, Some(BacktestConfig(setup.exchange, "1m", "m", setup.costs))) :
        il \in InputLists, ml \in ModelLists, setup \in CostSetups}
    \cup {AppConfig(<<FastRsi>>, <<>>, None)}
    \cup {AppConfig(<<FastRsi>>, ml,
                    Some(BacktestConfig(b[1], b[2], b[3], setup.costs))) :
            ml \in ModelLists, setup \in CostSetups,
            b \in {<<"kraken", "1m", "m">>, <<"upbit", "2m", "m">>,
                   <<"upbit", "1m", "absent">>}}

\* (open, close) of a stored candle: a rise and a fall between 2 and 4.
RunCandleShapes == {<<2, 4>>, <<4, 2>>}

StoredHistories ==
    UNION {{[k \in 1..n |-> Candle(k - 1, shapes[k])] :
                shapes \in [1..n -> RunCandleShapes]} : n \in 0..MaxCandles}

RunInit ==
    /\ config \in RunConfigs
    /\ \E stored \in StoredHistories :
          storage = [candles |-> stored, runs |-> <<>>, trades |-> <<>>]
    /\ settings = (IF config.backtest.some THEN config.backtest.v ELSE Unset)
    /\ exchange = "none"
    /\ candles = <<>>
    /\ model = Unset
    /\ input_series = Unset
    /\ EngineIdle
    /\ run_pc = "load"
    /\ run_record = Unset
    /\ run_result = Unset
    /\ save_calls = 0
    /\ prev_output = Unset
    /\ parked = Unset
    /\ solo = Unset
    /\ LiveIdle
    /\ fn_args = Unset
    /\ fn_ret = Unset

RunNext ==
    \/ LoadConfig
    \/ RunLoadCandles
    \/ RunPrepare
    \/ StepSkip
    \/ StepBuy
    \/ StepSell
    \/ StepHold
    \/ ForceClose
    \/ RunBuildRun
    \/ RunSave
    \/ RunAgain

RunSpec == RunInit /\ [][RunNext]_vars


(***************************************************************************)
(* Properties                                                              *)
(***************************************************************************)
MaxEntries == settings.risk.max_entries_per_position
CooldownBars == settings.risk.cooldown_bars
SlippageRatio == RDiv(settings.costs.slippage_bps, R(10000))

\* A Buy is decided at the current index and neither the sizing nor the fill
\* price makes it a no-op.
BuySignalWithFunds ==
    /\ InLoop
    /\ Decision = "Buy"
    /\ RGt(BuyNotional(index), Zero)
    /\ RGt(At(candles, index + 1).open, Zero)

\* The step just executed was a Buy signal that could be sized and priced:
\* cash was left and the fill candle (now candles[index]) opens above zero.
BuySignalledWithFunds ==
    /\ action = "Buy"
    /\ RGt(cash, Zero)
    /\ RGt(At(candles, index).open, Zero)

\* C1: with max_entries_per_position = m > 0 the number of open lots never
\* exceeds m, and a Buy arriving while m lots are open opens nothing; with
\* m = 0 a Buy that passes the cooldown opens a lot however many are open.
C1_MaxEntriesBound ==
    /\ [](MaxEntries > 0 => Len(open_lots) <= MaxEntries)
    /\ [][/\ (InLoop /\ Decision = "Buy"
                /\ MaxEntries > 0 /\ Len(open_lots) = MaxEntries)
                => open_lots' = open_lots
          /\ (BuySignalWithFunds /\ MaxEntries = 0
                /\ (last_entry_fill_index.some
                      => index + 1 > last_entry_fill_index.v + CooldownBars))
                => Len(open_lots') = Len(open_lots) + 1]_vars

\* C1 witness: a Buy signal that could be sized, priced and was not in
\* cooldown arrived with m > 0 lots open and opened nothing.
C1_Witness ==
    /\ BuySignalledWithFunds
    /\ MaxEntries = 2
    /\ Len(open_lots) = MaxEntries
    /\ CooldownBars = 0
    /\ last_entry_fill_index.some
    /\ last_entry_fill_index.v < index

\* C2 as claimed: a Buy at step i that passes every other guard is rejected
\* exactly when (i+1) - last_entry_fill_index < cooldown_bars.
C2_Original ==
    [][(BuySignalWithFunds /\ ~hit_max_entries /\ last_entry_fill_index.some)
          => ((open_lots' = open_lots)
                <=> (index + 1) - last_entry_fill_index.v < CooldownBars)]_vars

\* C2 amended: a Buy at step i that passes every other guard is rejected on
\* cooldown grounds exactly when there was an entry and
\* (i+1) - last_entry_fill_index <= cooldown_bars; it is let through once the
\* difference exceeds cooldown_bars, and always when there was no entry.
C2_CooldownInclusive ==
    [][(BuySignalWithFunds
          /\ (MaxEntries = 0 \/ Len(open_lots) < MaxEntries))
          => ((open_lots' = open_lots)
                <=> (/\ last_entry_fill_index.some
                     /\ (index + 1) - last_entry_fill_index.v <= CooldownBars))]_vars

\* C2 witness: a Buy signal whose fill index is exactly cooldown_bars after
\* the last entry's was rejected, nothing else standing in its way.
C2_Witness ==
    /\ BuySignalledWithFunds
    /\ CooldownBars >= 1
    /\ (MaxEntries = 0 \/ Len(open_lots) < MaxEntries)
    /\ last_entry_fill_index.some
    /\ index - last_entry_fill_index.v = CooldownBars

\* Fill indices of every lot created so far, open or closed.
EntryTimes ==
    {open_lots[k].entry_time : k \in 1..Len(open_lots)}
        \cup {trades[k].entry_time : k \in 1..Len(trades)}

EntryFillIndices ==
    {k \in 0..(Len(candles) - 1) : At(candles, k).open_time \in EntryTimes}

\* C3: with cooldown_bars >= 1 no two lots have entry fill indices that
\* differ by exactly 1, whatever max_entries_per_position is.
C3_NoConsecutiveEntries ==
    CooldownBars >= 1 =>
        \A a, b \in EntryFillIndices : b - a # 1

\* C3 witness: a Buy signal one step after an accepted Buy, with no entry
\* limit, funds and a positive fill price, under a cooldown of at least 1.
C3_Witness ==
    /\ BuySignalledWithFunds
    /\ CooldownBars >= 1
    /\ MaxEntries = 0
    /\ last_entry_fill_index.some
    /\ last_entry_fill_index.v = index - 1
    /\ Len(open_lots) = 1


\* Trades pushed by the step being taken.
NewTrades == SubSeq(trades', Len(trades) + 1, Len(trades'))

\* C4: every model-driven fill happens at the candle after the signal bar:
\* a lot opened at step i has entry_time = candles[i+1].open_time and
\* entry_price = candles[i+1].open * (1 + slippage_bps/10000); a trade closed
\* by a model Sell at step i has exit_time = candles[i+1].open_time and
\* exit_price = candles[i+1].open * (1 - slippage_bps/10000).
C4_FillAtNextOpen ==
    [][InLoop =>
        LET next == At(candles, index + 1)
        IN  /\ Len(open_lots') > Len(open_lots) =>
                /\ open_lots' = Append(open_lots, Last(open_lots'))
                /\ Last(open_lots').entry_time = next.open_time
                /\ Last(open_lots').entry_price
                      = RMul(next.open, RAdd(One, SlippageRatio))
            /\ \A k \in 1..Len(NewTrades) :
                /\ NewTrades[k].reason = "model_sell"
                /\ NewTrades[k].exit_time = next.open_time
                /\ NewTrades[k].exit_price
                      = RMul(next.open, RSub(One, SlippageRatio))]_vars

\* C4 witness: under non-zero slippage a lot bought at one candle's open was
\* sold by the model at the open of the candle after the Sell signal, and the
\* signal bars' opens differ from the fill bars'.
C4_Witness ==
    /\ action = "Sell"
    /\ index >= 2
    /\ settings.costs.slippage_bps # Zero
    /\ trades # <<>>
    /\ Last(trades).reason = "model_sell"
    /\ Last(trades).exit_time = At(candles, index).open_time
    /\ Last(trades).entry_time = At(candles, index - 1).open_time
    /\ At(candles, index - 1).open # At(candles, index - 2).open
    /\ At(candles, index).open # At(candles, index - 1).open

\* C5: a model Sell at a step with k >= 1 open lots leaves no lot open and
\* pushes exactly k trades, one per lot in order, all tagged "model_sell"
\* with one exit_price and one exit_time; and whenever any step pushes
\* trades, it closes every open lot in full (trade quantity = lot quantity).
C5_SellClosesAll ==
    [][/\ (InLoop /\ Decision = "Sell" /\ Len(open_lots) >= 1) =>
            /\ open_lots' = <<>>
            /\ Len(trades') = Len(trades) + Len(open_lots)
            /\ \A k \in 1..Len(NewTrades) :
                /\ NewTrades[k].reason = "model_sell"
                /\ NewTrades[k].exit_price = NewTrades[1].exit_price
                /\ NewTrades[k].exit_time = NewTrades[1].exit_time
       /\ SubSeq(trades', 1, Len(trades)) = trades
       /\ Len(trades') > Len(trades) =>
            /\ open_lots' = <<>>
            /\ Len(NewTrades) = Len(open_lots)
            /\ \A k \in 1..Len(open_lots) :
                /\ NewTrades[k].quantity = open_lots[k].quantity
                /\ NewTrades[k].entry_time = open_lots[k].entry_time
                /\ NewTrades[k].entry_price = open_lots[k].entry_price]_vars

\* C5 witness: a model Sell has just closed two lots at once.
C5_Witness ==
    /\ action = "Sell"
    /\ open_lots = <<>>
    /\ Len(trades) = 2
    /\ trades[1].reason = "model_sell"
    /\ trades[2].reason = "model_sell"
    /\ trades[1].exit_time = At(candles, index).open_time
    /\ trades[2].exit_time = At(candles, index).open_time
    /\ trades[1].entry_time # trades[2].entry_time

ForcedExits(ts) == {k \in 1..Len(ts) : ts[k].reason = "forced_exit"}

\* C6: when execute completes no lot remains open; every lot still open
\* after the last step is closed by the final close, tagged "forced_exit",
\* at the last candle's close * (1 - slippage_bps/10000) and the last
\* candle's open_time; no trade carries "forced_exit" before the final close.
C6_ForcedExit ==
    /\ [](pc = "loop" => ForcedExits(trades) = {})
    /\ [](pc = "done" =>
            /\ open_lots = <<>>
            /\ \A k \in ForcedExits(trades) :
                /\ trades[k].exit_time = Last(candles).open_time
                /\ trades[k].exit_price
                      = RMul(Last(candles).close, RSub(One, SlippageRatio)))
    /\ [][(pc = "loop" /\ pc' = "done") =>
            /\ Len(NewTrades) = Len(open_lots)
            /\ \A k \in 1..Len(open_lots) :
                /\ NewTrades[k].reason = "forced_exit"
                /\ NewTrades[k].entry_time = open_lots[k].entry_time
                /\ NewTrades[k].quantity = open_lots[k].quantity]_vars

\* C6 witness: a finished run whose final close closed a lot, after a model
\* Sell had closed another, under non-zero slippage and with the last
\* candle's open different from its close.
C6_Witness ==
    /\ pc = "done"
    /\ settings.costs.slippage_bps # Zero
    /\ Len(trades) >= 2
    /\ trades[1].reason = "model_sell"
    /\ Last(trades).reason = "forced_exit"
    /\ Last(trades).exit_price # Zero

\* C7: lots are conserved: in every state the number of accepted Buys is
\* the number of open lots plus the number of trades, and at the end of a
\* run the number of trades is the number of accepted Buys.
C7_LotsConserved ==
    /\ accepted_buys = Len(open_lots) + Len(trades)
    /\ pc = "done" => Len(trades) = accepted_buys

\* C7 witness: a finished run with two accepted Buys, one closed by a
\* model Sell and one by the final close.
C7_Witness ==
    /\ pc = "done"
    /\ accepted_buys = 2
    /\ trades[1].reason = "model_sell"
    /\ Last(trades).reason = "forced_exit"


\* The step appends exactly one point to the equity curve.
OneEquityPointAppended ==
    /\ Len(equity_curve') = Len(equity_curve) + 1
    /\ SubSeq(equity_curve', 1, Len(equity_curve)) = equity_curve

\* C8: a Buy that is rejected (max entries reached, or the cooldown of the
\* last entry still running) or is a no-op (notional <= 0 or fill price
\* <= 0) leaves cash, the open lots, the trades and last_entry_fill_index
\* unchanged; the step only appends one equity point.
C8_RejectedBuyFrame ==
    [][(/\ InLoop
        /\ Decision = "Buy"
        /\ \/ (MaxEntries > 0 /\ Len(open_lots) >= MaxEntries)
           \/ (/\ last_entry_fill_index.some
               /\ (index + 1) - last_entry_fill_index.v <= CooldownBars)
           \/ RLe(BuyNotional(index), Zero)
           \/ RLe(RMul(At(candles, index + 1).open, RAdd(One, SlippageRatio)), Zero))
          => /\ UNCHANGED <<cash, open_lots, trades, last_entry_fill_index>>
             /\ OneEquityPointAppended]_vars

\* C8 witness: a Buy signal with no entry limit and no cooldown found no
\* cash left to size an entry and was a no-op.
C8_Witness ==
    /\ action = "Buy"
    /\ cash = Zero
    /\ MaxEntries = 0
    /\ CooldownBars = 0
    /\ RGt(At(candles, index).open, Zero)
    /\ last_entry_fill_index.some
    /\ last_entry_fill_index.v < index

\* Some input the model requires has no value at index i.
RequiredValueAbsent(i) ==
    \E k \in 1..Len(model.required_inputs) :
        LET name == model.required_inputs[k]
        IN  \/ name \notin DOMAIN input_series
            \/ Len(input_series[name]) < i + 1
            \/ ~At(input_series[name], i).some

\* C9: at a step where an input named in required_inputs has no value at
\* the index, the model is not evaluated, cash, open lots, trades and
\* last_entry_fill_index are unchanged, exactly one equity point is
\* appended, and the run goes on to the next index.
C9_SkipFrame ==
    [][(InLoop /\ RequiredValueAbsent(index))
          => /\ action' = "Skip"
             /\ UNCHANGED <<cash, open_lots, trades, last_entry_fill_index>>
             /\ OneEquityPointAppended
             /\ pc' = "loop"
             /\ index' = index + 1]_vars

\* C9 witness: a step was skipped although one of the two required inputs
\* had a value at its index (the other was absent).
C9_Witness ==
    /\ action = "Skip"
    /\ model.kind = "sma_cross"
    /\ index >= 1
    /\ At(input_series[model.short_input], index - 1).some
    /\ RequiredValueAbsent(index - 1)

RECURSIVE MarkToMarket(_, _)
MarkToMarket(lots, price) ==
    IF lots = <<>> THEN Zero
    ELSE RAdd(RMul(lots[1].quantity, price), MarkToMarket(Tail(lots), price))

AvailableInputNames ==
    IF config.inputs = <<>> THEN {"rsi_14"} ELSE Names(config.inputs)

\* The selected model can be built and requires a name that no input has.
DanglingRequiredInput ==
    /\ config.backtest.some
    /\ find_model(config, config.backtest.v).ok
    /\ LET required == find_model(config, config.backtest.v).v.required_inputs
       IN  \E k \in 1..Len(required) : required[k] \notin AvailableInputNames

\* C11: a configuration whose selected model requires an input name that is
\* not among the configured inputs (or not the default "rsi_14" when none is
\* configured) is rejected with an error before the simulation starts: no
\* step is executed, nothing is saved, and what is returned is an error.
C11_DanglingInputRejected ==
    DanglingRequiredInput =>
        /\ index = 0
        /\ equity_curve = <<>>
        /\ save_calls = 0
        /\ run_pc = "returned" => ~run_result.ok

\* A dangling requirement that the declared inputs reveal is rejected by
\* the validation of the configuration.
C11_Witness ==
    /\ DanglingRequiredInput
    /\ run_pc = "returned"
    /\ run_result = Err("models.inputs contains unknown input")

\* The run got as far as assembling its Run and then returned.
ReturnedAfterBuildRun == run_pc = "returned" /\ run_record.some

SaveFailed ==
    ReturnedAfterBuildRun /\ run_result = Err("failed to save backtest results")

\* What the caller of run holds of the computed output: an Ok carries the
\* BacktestOutput, an Err carries only its message.
ReturnedOutput == IF run_result.ok THEN Some(run_result.v) ELSE None

\* C12: when persisting a completed backtest fails, the failure is
\* propagated to the caller and the computed Run and Trades are not lost:
\* whatever run returns after the simulation, success or failure, leaves
\* the caller with the Run and the Trades, and it is a failure when the Run
\* was not stored.
C12_SaveFailureKeepsOutput ==
    ReturnedAfterBuildRun =>
        /\ run_record \notin {storage.runs[k] : k \in 1..Len(storage.runs)}
              => ~run_result.ok
        /\ ReturnedOutput = Some([run |-> run_record, trades |-> trades])

\* The save failed after a simulation that closed a trade, and the caller
\* was handed the error.
C12_Witness ==
    /\ SaveFailed
    /\ save_calls = 1
    /\ trades # <<>>

\* The candles handed to the engine or the configured inputs and model
\* violate a precondition of run: too few candles for the engine or for an
\* input's lookback, or an input or the model cannot be constructed.
FailsPrecondition ==
    \/ Len(candles) < 2
    \/ ~BuiltInputs.ok
    \/ /\ BuiltInputs.ok
       /\ \E k \in 1..Len(BuiltInputs.v) :
             Len(candles) < required_candles(BuiltInputs.v[k])
    \/ config.backtest.some /\ ~find_model(config, config.backtest.v).ok

NoStepExecuted ==
    /\ index = 0
    /\ action = "None"
    /\ equity_curve = <<>>
    /\ trades = <<>>

SimulationCompleted ==
    /\ pc = "done"
    /\ index = Len(candles) - 1
    /\ Len(equity_curve) = Len(candles)

\* C13: run fails fast. With fewer than 2 candles loaded, fewer than the
\* largest required_candles() of the inputs, or an input or model that cannot
\* be constructed, no simulation step is executed, save_backtest_results is
\* not called and what run returns is an error; save_backtest_results is
\* called at most once per run and only after the simulation completed.
C13_FailFast ==
    /\ FailsPrecondition =>
          /\ NoStepExecuted
          /\ save_calls = 0
          /\ run_pc = "returned" => ~run_result.ok
    /\ save_calls <= 1
    /\ save_calls = 1 => SimulationCompleted
    /\ run_pc = "save" => SimulationCompleted

\* Candles were loaded, enough for the engine but not for the slowest
\* input, and run returned the error.
C13_Witness ==
    /\ run_pc = "returned"
    /\ Len(candles) >= 2
    /\ run_result = Err("insufficient candles")
    /\ save_calls = 0

RunIdsOf(ts) == {ts[k].run_id : k \in 1..Len(ts)}

\* C16: while the simulation runs every Trade carries the empty placeholder
\* run_id; in the output of a successful run every Trade's run_id equals the
\* Run's run_id, which is not empty.
C16_RunIdBackfilled ==
    /\ run_pc = "execute" => RunIdsOf(trades) \subseteq {""}
    /\ (run_pc = "returned" /\ run_result.ok) =>
          /\ run_result.v.run.run_id # ""
          /\ RunIdsOf(run_result.v.trades) \subseteq {run_result.v.run.run_id}

\* A successful run returned two trades.
C16_Witness ==
    /\ run_pc = "returned"
    /\ run_result.ok
    /\ Len(run_result.v.trades) >= 2

WinsAmong(ts) == {k \in 1..Len(ts) : RGt(ts[k].net_pnl, Zero)}

\* C17: in the output of a run trade_count is the number of returned trades
\* and win_rate_pct is 100 * (trades with net_pnl > 0) / trade_count, or 0
\* when there is no trade; a trade with net_pnl = 0 is not a win.
C17_RunStatistics ==
    (run_pc = "returned" /\ run_result.ok) =>
        LET out == run_result.v
            n == Len(out.trades)
        IN  /\ out.run.trade_count = n
            /\ n = 0 => out.run.win_rate_pct = Zero
            /\ n > 0 => RMul(out.run.win_rate_pct, R(n))
                            = R(100 * Cardinality(WinsAmong(out.trades)))

\* A successful run returned a winning trade and a trade that broke even.
C17_Witness ==
    /\ run_pc = "returned"
    /\ run_result.ok
    /\ \E j, k \in 1..Len(run_result.v.trades) :
          /\ RGt(run_result.v.trades[j].net_pnl, Zero)
          /\ run_result.v.trades[k].net_pnl = Zero
    /\ run_result.v.run.win_rate_pct = R(50)

\* A Run and its Trades without the two fields that differ by construction.
RunWithoutStamp(run) == [run EXCEPT !.run_id = "", !.created_at = 0]
TradesWithoutRunId(ts) == [k \in 1..Len(ts) |-> [ts[k] EXCEPT !.run_id = ""]]

SecondRunBuilt == prev_output.some /\ run_record.some

PairCandles == 3

\* Everything one BacktestEngine owns or borrows, with the locals of execute.
Instance(id) ==
    [id |-> id, settings |-> settings, exchange |-> exchange,
     candles |-> candles, model |-> model, input_series |-> input_series,
     cash |-> cash, last_entry_fill_index |-> last_entry_fill_index,
     open_lots |-> open_lots, trades |-> trades, equity_curve |-> equity_curve,
     pc |-> pc, index |-> index, action |-> action,
     accepted_buys |-> accepted_buys]

\* BacktestEngine::new and the start of execute for one set of inputs.
FreshInstance(id, in) ==
    [id |-> id, settings |-> in.settings, exchange |-> in.exchange,
     candles |-> in.candles, model |-> build_default_model,
     input_series |-> [name \in {"rsi_14"} |-> in.rsi],
     cash |-> in.settings.initial_capital, last_entry_fill_index |-> None,
     open_lots |-> <<>>, trades |-> <<>>, equity_curve |-> <<>>,
     pc |-> "loop", index |-> 0, action |-> "None", accepted_buys |-> 0]

\* RSI series of n entries: always oversold; oversold and overbought in
\* turn; and a first entry absent, a neutral one, then oversold and
\* overbought in turn.
Alternating(n) == [k \in 1..n |-> IF k % 2 = 1 THEN R(20) ELSE R(80)]

PairSeries(n) ==
    {align_series(n, Flat(n, R(20))),
     align_series(n, Alternating(n)),
     align_series(n, <<R(50)>> \o Alternating(n - 2))}

PairInputs ==
    {[settings |-> SettingsOf(setup.costs, NoRiskLimits, R(50)),
      exchange |-> setup.exchange, candles |-> cs, rsi |-> rsi] :
        setup \in CostSetups,
        cs \in {h \in CandleHistories : Len(h) = PairCandles},
        rsi \in PairSeries(PairCandles)}

\* The instance being stepped becomes the given one.
Resume(inst) ==
    /\ settings' = inst.settings
    /\ exchange' = inst.exchange
    /\ candles' = inst.candles
    /\ model' = inst.model
    /\ input_series' = inst.input_series
    /\ cash' = inst.cash
    /\ last_entry_fill_index' = inst.last_entry_fill_index
    /\ open_lots' = inst.open_lots
    /\ trades' = inst.trades
    /\ equity_curve' = inst.equity_curve
    /\ pc' = inst.pc
    /\ index' = inst.index
    /\ action' = inst.action
    /\ accepted_buys' = inst.accepted_buys

\* Mutant: cash is one cell that both instances use.
Switch_shared_cash ==
    /\ run_pc = "pair"
    /\ parked' = Instance(3 - parked.id)
    /\ Resume([parked EXCEPT !.cash = cash])
    /\ UNCHANGED <<config, storage, run_pc, run_record, run_result, save_calls,
                   prev_output, solo, live, fn_args, fn_ret>>

\* The scheduler turns to the other instance; each keeps what it owns.
Switch ==
    /\ run_pc = "pair"
    /\ parked' = Instance(3 - parked.id)
    /\ Resume(parked)
    /\ UNCHANGED <<config, storage, run_pc, run_record, run_result, save_calls,
                   prev_output, solo, live, fn_args, fn_ret>>

\* The first instance has run alone: what it ended with is kept, and the
\* same backtest is started again, now next to the second instance.
PairStart ==
    /\ run_pc = "solo"
    /\ pc = "done"
    /\ solo' = [some |-> TRUE, cash |-> cash, trades |-> trades,
                equity_curve |-> equity_curve]
    /\ run_pc' = "pair"
    /\ BacktestEngineNew
    /\ pc' = "loop"
    /\ index' = 0
    /\ action' = "None"
    /\ accepted_buys' = 0
    /\ UNCHANGED <<inputs, config, storage, run_record, run_result, save_calls,
                   prev_output, parked, live, fn_args, fn_ret>>

PairInit ==
    /\ \E first \in PairInputs, second \in PairInputs :
          /\ settings = first.settings
          /\ exchange = first.exchange
          /\ candles = first.candles
          /\ input_series = [name \in {"rsi_14"} |-> first.rsi]
          /\ parked = FreshInstance(2, second)
    /\ model = build_default_model
    /\ cash = settings.initial_capital
    /\ last_entry_fill_index = None
    /\ open_lots = <<>>
    /\ trades = <<>>
    /\ equity_curve = <<>>
    /\ pc = "loop"
    /\ index = 0
    /\ action = "None"
    /\ accepted_buys = 0
    /\ run_pc = "solo"
    /\ solo = Unset
    /\ LiveIdle
    /\ config = Unset
    /\ storage = Unset
    /\ run_record = Unset
    /\ run_result = Unset
    /\ save_calls = 0
    /\ prev_output = Unset
    /\ fn_args = Unset
    /\ fn_ret = Unset

PairNext ==
    \/ StepSkip
    \/ StepBuy
    \/ StepSell
    \/ StepHold
    \/ ForceClose
    \/ PairStart
    \/ Switch

PairSpec == PairInit /\ [][PairNext]_vars

\* The first instance, whichever of the two is being stepped.
FirstInstance == IF parked.id = 2 THEN Instance(1) ELSE parked
SecondInstance == IF parked.id = 2 THEN parked ELSE Instance(2)

MaxCurveLen == 4

\* No configuration, no engine, no run: only a function is called.
NoRun ==
    /\ settings = Unset
    /\ exchange = "none"
    /\ candles = <<>>
    /\ model = Unset
    /\ input_series = Unset
    /\ EngineIdle
    /\ config = Unset
    /\ storage = Unset
    /\ run_pc = "none"
    /\ run_record = Unset
    /\ run_result = Unset
    /\ save_calls = 0
    /\ prev_output = Unset
    /\ parked = Unset
    /\ solo = Unset
    /\ LiveIdle

\* Equity values: negative, zero, and around 100.
EquityValues == {R(-10), R(0), R(90), R(100), R(110), R(120)}

EquityCurves == SeqsUpTo(EquityValues, MaxCurveLen)

DrawdownInit ==
    /\ NoRun
    /\ \E curve \in EquityCurves : fn_args = [some |-> TRUE, curve |-> curve]
    /\ fn_ret = Unset

CallMaxDrawdown ==
    /\ fn_args.some
    /\ ~fn_ret.some
    /\ fn_ret' = Some(calculate_max_drawdown_pct(fn_args.curve))
    /\ UNCHANGED <<inputs, engine, config, storage, run_pc, run_record,
                   run_result, save_calls, prev_output, parked, solo, live, fn_args>>

DrawdownNext == CallMaxDrawdown

DrawdownSpec == DrawdownInit /\ [][DrawdownNext]_vars

\* The largest equity among the first k points of a curve.
RunningPeak(curve, k) ==
    CHOOSE p \in {curve[j] : j \in 1..k} : \A j \in 1..k : RLe(curve[j], p)

\* (running_peak - equity) / running_peak at the points with a peak above 0.
DrawdownsOf(curve) ==
    {RDiv(RSub(RunningPeak(curve, k), curve[k]), RunningPeak(curve, k)) :
        k \in {j \in 1..Len(curve) : RGt(RunningPeak(curve, j), Zero)}}

LargestOf(S) == CHOOSE m \in S : \A x \in S : RLe(x, m)

NonDecreasing(curve) ==
    \A k \in 1..(Len(curve) - 1) : RLe(curve[k], curve[k + 1])

\* C18: max_drawdown_pct is 100 times the largest (running_peak - equity) /
\* running_peak over the points of the curve whose running peak is above 0;
\* it is 0 for an empty or non-decreasing curve, lies in [0, 100] when no
\* equity is negative, and is 25 for the curve [100, 120, 90, 110].
C18_MaxDrawdown ==
    fn_ret.some =>
        LET curve == fn_args.curve
        IN  /\ fn_ret.v = RMul(LargestOf(DrawdownsOf(curve) \cup {Zero}), R(100))
            /\ (curve = <<>> \/ NonDecreasing(curve)) => fn_ret.v = Zero
            /\ (\A k \in 1..Len(curve) : RLe(Zero, curve[k]))
                  => RLe(Zero, fn_ret.v) /\ RLe(fn_ret.v, R(100))
            /\ curve = <<R(100), R(120), R(90), R(110)>> => fn_ret.v = R(25)

\* The drawdown of the curve [100, 120, 90, 110] has been computed.
C18_Witness ==
    /\ fn_args.some
    /\ fn_args.curve = <<R(100), R(120), R(90), R(110)>>
    /\ fn_ret = Some(R(25))

\* Largest period of an indicator input whose series is computed.
MaxPeriod == 3

SignalInputs ==
    {CloseInput("px")}
    \cup {IndicatorInput("ma", IndicatorNew(kind, p).v) :
            kind \in {"sma", "rsi"}, p \in 1..MaxPeriod}

\* Calls of SignalInput::series on stored histories, and calls of
\* align_series with any values that fit the length.
SeriesCalls ==
    {[fn |-> "series", input |-> input, candles |-> cs] :
        input \in SignalInputs, cs \in StoredHistories}
    \cup {[fn |-> "align_series", total_len |-> n, values |-> values] :
            n \in 0..MaxCandles, values \in SeqsUpTo({R(1), R(2)}, MaxCandles)}

AlignInit ==
    /\ NoRun
    /\ \E call \in SeriesCalls :
          /\ call.fn = "align_series" => Len(call.values) <= call.total_len
          /\ fn_args = call
    /\ fn_ret = Unset

CallSeries ==
    /\ fn_args.fn = "series"
    /\ ~fn_ret.some
    /\ fn_ret' = Some(series(fn_args.input, fn_args.candles))
    /\ UNCHANGED <<inputs, engine, config, storage, run_pc, run_record,
                   run_result, save_calls, prev_output, parked, solo, live, fn_args>>

CallAlignSeries ==
    /\ fn_args.fn = "align_series"
    /\ ~fn_ret.some
    /\ fn_ret' = Some(align_series(fn_args.total_len, fn_args.values))
    /\ UNCHANGED <<inputs, engine, config, storage, run_pc, run_record,
                   run_result, save_calls, prev_output, parked, solo, live, fn_args>>

AlignNext ==
    \/ CallSeries
    \/ CallAlignSeries

AlignSpec == AlignInit /\ [][AlignNext]_vars

\* A series of n entries holds the m values at its end, in order, after
\* n - m absent entries.
RightAligned(out, n, values) ==
    LET m == Len(values)
    IN  /\ Len(out) = n
        /\ \A i \in 0..(n - m - 1) : ~At(out, i).some
        /\ \A k \in 0..(m - 1) : At(out, n - m + k) = Some(At(values, k))

\* C19: for N candles and an indicator output of M <= N values the series
\* has exactly N entries, entries 0..N-M-1 are absent and entry N-M+k holds
\* output value k, so the absent entries form a prefix and the last entry
\* belongs to the last candle; the raw close input yields N present entries
\* equal to the closes.
C19_FeatureAlignment ==
    fn_ret.some =>
        /\ fn_args.fn = "align_series" =>
              RightAligned(fn_ret.v, fn_args.total_len, fn_args.values)
        /\ (fn_args.fn = "series" /\ fn_ret.v.ok) =>
              LET n == Len(fn_args.candles)
                  out == fn_ret.v.v
              IN  /\ Len(out) = n
                  /\ \A j, k \in 1..n : (j <= k /\ out[j].some) => out[k].some
                  /\ fn_args.input.kind = "indicator" =>
                        /\ Len(calculate(fn_args.input.indicator, fn_args.candles).v) <= n
                        /\ RightAligned(out, n,
                              calculate(fn_args.input.indicator, fn_args.candles).v)
                  /\ fn_args.input.kind = "close" =>
                        \A k \in 1..n : out[k] = Some(fn_args.candles[k].close)

\* The 2-period average of four candles: one absent entry, then the three
\* averages, the last of them of the last two closes.
C19_Witness ==
    /\ fn_ret.some
    /\ fn_args.fn = "series"
    /\ fn_args.input.kind = "indicator"
    /\ fn_args.input.indicator = [kind |-> "sma", period |-> 2]
    /\ Len(fn_args.candles) = 4
    /\ fn_ret.v.ok
    /\ ~fn_ret.v.v[1].some
    /\ fn_ret.v.v[4] = Some(RDiv(RAdd(fn_args.candles[3].close,
                                      fn_args.candles[4].close), R(2)))

(***************************************************************************)
(* Position sizing (Spec)                                                  *)
(***************************************************************************)
RECURSIVE TotalQuantity(_)
TotalQuantity(lots) ==
    IF lots = <<>> THEN Zero
    ELSE RAdd(Head(lots).quantity, TotalQuantity(Tail(lots)))

\* The step being taken is a Buy that opens a lot.
BuyAccepted == InLoop /\ Decision = "Buy" /\ accepted_buys' = accepted_buys + 1

\* C20: an accepted Buy at step i is sized as notional = min(equity *
\* entry_size_percent / 100, cash / (1 + fee_bps / 10000)) with equity =
\* cash + sum(lot.quantity) * candles[i].close; the step decreases cash by
\* exactly notional + notional * fee_bps / 10000 and appends a lot with
\* quantity = notional / fill_price and fee_paid = notional * fee_bps / 10000.
C20_PositionSizing ==
    [][BuyAccepted =>
        LET fee_bps == resolve_fee_bps(exchange, settings.costs.fee_bps_overrides)
            close == At(candles, index).close
            equity == RAdd(cash, RMul(TotalQuantity(open_lots), close))
            target == RDiv(RMul(equity, settings.entry_size_percent), R(100))
            affordable == RDiv(cash, RAdd(One, RDiv(fee_bps, R(10000))))
            notional == IF RLe(target, affordable) THEN target ELSE affordable
            fee == RDiv(RMul(notional, fee_bps), R(10000))
            fill_price == RMul(At(candles, index + 1).open,
                               RAdd(One, SlippageRatio))
        IN  /\ RSub(cash, cash') = RAdd(notional, fee)
            /\ Len(open_lots') = Len(open_lots) + 1
            /\ SubSeq(open_lots', 1, Len(open_lots)) = open_lots
            /\ Last(open_lots').quantity = RDiv(notional, fill_price)
            /\ Last(open_lots').fee_paid = fee]_vars

\* A Buy was accepted while a lot was already open and worth something at
\* the close of the step, and a fee was charged on the new lot.
C20_Witness ==
    /\ action = "Buy"
    /\ Len(open_lots) >= 2
    /\ RGt(Last(open_lots).fee_paid, Zero)
    /\ RGt(RMul(TotalQuantity(open_lots), At(candles, index - 1).close), Zero)

(***************************************************************************)
(* TradingModel::evaluate called on its own                                *)
(***************************************************************************)
\* Feature values around the thresholds 30 and 70.
FeatureValues == {R(20), R(30), R(50), R(70), R(80)}

\* HashMap<String, f64> with any of the two names present.
FeatureMaps ==
    UNION {[names -> FeatureValues] : names \in SUBSET {"rsi_14", "volume"}}

\* RSI-reversion models over "rsi_14", the thresholds in either order.
ReversionModels ==
    {RsiReversionModel("m", "rsi_14", lo, hi) : lo, hi \in {R(30), R(70)}}

EvaluateInit ==
    /\ NoRun
    /\ \E m \in ReversionModels, fv \in FeatureMaps :
          fn_args = [some |-> TRUE, model |-> m, feature_values |-> fv]
    /\ fn_ret = Unset

CallEvaluate ==
    /\ fn_args.some
    /\ ~fn_ret.some
    /\ fn_ret' = Some(evaluate(fn_args.model, fn_args.feature_values))
    /\ UNCHANGED <<inputs, engine, config, storage, run_pc, run_record,
                   run_result, save_calls, prev_output, parked, solo, live, fn_args>>

EvaluateNext == CallEvaluate

EvaluateSpec == EvaluateInit /\ [][EvaluateNext]_vars

\* C21: RSI Reversion evaluate always returns an action: Buy iff the named
\* value is present and < oversold, Sell iff it is present, not < oversold
\* and > overbought, and Hold otherwise, which includes a value equal to a
\* threshold and an absent feature.
C21_RsiReversionTotal ==
    fn_ret.some =>
        LET m == fn_args.model
            fv == fn_args.feature_values
            present == m.input_name \in DOMAIN fv
            below == present /\ fv[m.input_name].n * m.oversold.d
                                  < m.oversold.n * fv[m.input_name].d
            above == present /\ fv[m.input_name].n * m.overbought.d
                                  > m.overbought.n * fv[m.input_name].d
        IN  /\ fn_ret.v \in {"Buy", "Sell", "Hold"}
            /\ fn_ret.v = "Buy" <=> below
            /\ fn_ret.v = "Sell" <=> (~below /\ above)
            /\ fn_ret.v = "Hold" <=> (~below /\ ~above)
            /\ ~present => fn_ret.v = "Hold"
            /\ (present /\ fv[m.input_name] \in {m.oversold, m.overbought}
                   /\ RLe(m.oversold, m.overbought)) => fn_ret.v = "Hold"

\* A value equal to the oversold threshold was evaluated to Hold while
\* another feature was present too.
C21_Witness ==
    /\ fn_ret = Some("Hold")
    /\ DOMAIN fn_args.feature_values = {"rsi_14", "volume"}
    /\ fn_args.feature_values["rsi_14"] = fn_args.model.oversold
    /\ RLt(fn_args.model.oversold, fn_args.model.overbought)


(***************************************************************************)
(* Indicator::calculate called on its own                                  *)
(***************************************************************************)
MaxSeriesLen == 6

\* A candle whose volume differs from its close.
IndicatorCandle(k, price) ==
    [open_time |-> k * CandleInterval, open |-> R(price), close |-> R(price),
     volume |-> R(price + 1)]

IndicatorCandles ==
    UNION {{[k \in 1..n |-> IndicatorCandle(k - 1, prices[k])] :
                prices \in [1..n -> {2, 4}]} : n \in 0..MaxSeriesLen}

\* Every indicator the constructors accept with periods up to MaxPeriod.
Indicators ==
    {IndicatorNew(kind, p).v :
        kind \in {"sma", "ema", "rsi", "volume_ma"}, p \in 1..MaxPeriod}
    \cup {BollingerNew(p, R(2)).v : p \in 1..MaxPeriod}
    \cup {MacdNew(per[1], per[2], per[3]).v :
            per \in {q \in (1..MaxPeriod) \X (1..MaxPeriod) \X (1..(MaxPeriod - 1)) :
                        MacdNew(q[1], q[2], q[3]).ok}}

IndicatorInit ==
    /\ NoRun
    /\ \E indicator \in Indicators, cs \in IndicatorCandles :
          fn_args = [some |-> TRUE, indicator |-> indicator, candles |-> cs]
    /\ fn_ret = Unset

CallCalculate ==
    /\ fn_args.some
    /\ ~fn_ret.some
    /\ fn_ret' = Some(calculate(fn_args.indicator, fn_args.candles))
    /\ UNCHANGED <<inputs, engine, config, storage, run_pc, run_record,
                   run_result, save_calls, prev_output, parked, solo, live, fn_args>>

IndicatorNext == CallCalculate

IndicatorSpec == IndicatorInit /\ [][IndicatorNext]_vars

\* C22: SMA, EMA, Bollinger (middle band), VolumeMA and RSI with period p
\* reject an input shorter than required_candles() with InsufficientData
\* and return exactly N - (required_candles() - 1) values for N candles
\* otherwise: N - p + 1 for the moving averages and N - p for RSI, hence
\* exactly one value for exactly required_candles() candles.
C22_OutputLength ==
    (fn_ret.some /\ fn_args.indicator.kind # "macd") =>
        LET indicator == fn_args.indicator
            N == Len(fn_args.candles)
            p == indicator.period
            required == IndicatorRequiredCandles(indicator)
        IN  /\ required = IF indicator.kind = "rsi" THEN p + 1 ELSE p
            /\ N < required => fn_ret.v = Err("InsufficientData")
            /\ N >= required =>
                  /\ fn_ret.v.ok
                  /\ Len(fn_ret.v.v) = N - (required - 1)
                  /\ Len(fn_ret.v.v) = IF indicator.kind = "rsi" THEN N - p
                                       ELSE N - p + 1
            /\ N = required => fn_ret.v.ok /\ Len(fn_ret.v.v) = 1

\* An EMA of period 2 or more was given exactly required_candles() candles
\* of differing prices and returned one value.
C22_Witness ==
    /\ fn_ret.some
    /\ fn_args.indicator.kind = "ema"
    /\ fn_args.indicator.period >= 2
    /\ Len(fn_args.candles) = fn_args.indicator.period
    /\ fn_args.candles[1].close # fn_args.candles[2].close
    /\ fn_ret.v.ok
    /\ Len(fn_ret.v.v) = 1

\* C23: for MACD(fast, slow, signal) an input shorter than slow + signal
\* candles is rejected with InsufficientData, and an input of exactly
\* slow + signal candles yields exactly one value.
C23_MacdMinimumInput ==
    (fn_ret.some /\ fn_args.indicator.kind = "macd") =>
        LET indicator == fn_args.indicator
            N == Len(fn_args.candles)
            required == indicator.slow_period + indicator.signal_period
        IN  /\ IndicatorRequiredCandles(indicator) = required
            /\ N < required => fn_ret.v = Err("InsufficientData")
            /\ N = required => fn_ret.v.ok /\ Len(fn_ret.v.v) = 1

\* A MACD was given exactly slow + signal candles and returned values.
C23_Witness ==
    /\ fn_ret.some
    /\ fn_args.indicator.kind = "macd"
    /\ Len(fn_args.candles) =
          fn_args.indicator.slow_period + fn_args.indicator.signal_period
    /\ fn_ret.v.ok
    /\ Len(fn_ret.v.v) >= 1


(***************************************************************************)
(* SqliteStorage::save_backtest_results, one statement at a time           *)
(***************************************************************************)
MaxSavedTrades == 2

\* A run row and a trade row, reduced to the columns the queries use.
RunRow(stamp, trade_count) ==
    [run_id |-> stamp.run_id, created_at |-> stamp.created_at,
     trade_count |-> trade_count]
TradeRow(run_id, k, net_pnl) ==
    [run_id |-> run_id, exit_time |-> k * CandleInterval, net_pnl |-> net_pnl]

\* The arguments of a save: a run with its own trades, as run hands them over.
SaveCalls ==
    UNION {{[run |-> RunRow(stamp, n),
             trades |-> [k \in 1..n |-> TradeRow(stamp.run_id, k, pnls[k])]] :
                stamp \in Stamps, pnls \in [1..n -> {R(-1), R(1)}]} :
           n \in 0..MaxSavedTrades}

\* The database before the call: empty, or holding an earlier run.
EarlierRun == [run_id |-> "run-0", created_at |-> 0]
Databases ==
    {[runs |-> <<>>, trades |-> <<>>, tx |-> None],
     [runs |-> <<RunRow(EarlierRun, 1)>>,
      trades |-> <<TradeRow(EarlierRun.run_id, 1, R(1))>>, tx |-> None]}

\* self.pool.begin()
Begin(db) == [db EXCEPT !.tx = Some([runs |-> <<>>, trades |-> <<>>])]

\* .execute(&mut *tx) of an INSERT: the row is written inside the transaction.
InsertRun(db, run) ==
    [db EXCEPT !.tx = Some([db.tx.v EXCEPT !.runs = Append(@, run)])]
InsertTrade(db, trade) ==
    [db EXCEPT !.tx = Some([db.tx.v EXCEPT !.trades = Append(@, trade)])]

\* tx.commit()
Commit(db) ==
    [runs |-> db.runs \o db.tx.v.runs, trades |-> db.trades \o db.tx.v.trades,
     tx |-> None]

\* Mutant: the rows written so far stay when the transaction is dropped.
Rollback_keeps_writes(db) ==
    [runs |-> db.runs \o db.tx.v.runs, trades |-> db.trades \o db.tx.v.trades,
     tx |-> None]

\* Drop of a Transaction that was not committed (the `?` returns).
Rollback(db) == [db EXCEPT !.tx = None]

\* SELECT ... FROM backtest_runs WHERE run_id = ? LIMIT 1, outside the
\* transaction: only committed rows.
get_backtest_run(db, run_id) ==
    LET found == {k \in 1..Len(db.runs) : db.runs[k].run_id = run_id}
    IN  IF found = {} THEN None
        ELSE Some(db.runs[CHOOSE k \in found : \A j \in found : k <= j])

\* ORDER BY exit_time DESC
RECURSIVE OrderByExitTimeDesc(_)
OrderByExitTimeDesc(rows) ==
    IF rows = {} THEN <<>>
    ELSE LET first == CHOOSE r \in rows : \A o \in rows : o.exit_time <= r.exit_time
         IN  <<first>> \o OrderByExitTimeDesc(rows \ {first})

\* SELECT ... FROM backtest_trades WHERE run_id = ? ORDER BY exit_time DESC
\* LIMIT ?
list_backtest_trades(db, run_id, limit) ==
    LET rows == {db.trades[k] : k \in {j \in 1..Len(db.trades) :
                                          db.trades[j].run_id = run_id}}
        sorted == OrderByExitTimeDesc(rows)
    IN  SubSeq(sorted, 1, IF limit <= Len(sorted) THEN limit ELSE Len(sorted))

SaveInit ==
    /\ settings = Unset
    /\ exchange = "none"
    /\ candles = <<>>
    /\ model = Unset
    /\ input_series = Unset
    /\ EngineIdle
    /\ config = Unset
    /\ storage \in Databases
    /\ run_pc = "begin"
    /\ run_record = Unset
    /\ run_result = Unset
    /\ save_calls = 0
    /\ prev_output = Unset
    /\ parked = Unset
    /\ solo = Unset
    /\ LiveIdle
    /\ \E call \in SaveCalls :
          fn_args = [some |-> TRUE, run |-> call.run, trades |-> call.trades]
    /\ fn_ret = Unset

SaveUntouched ==
    UNCHANGED <<inputs, engine, config, run_record, run_result, save_calls,
                prev_output, parked, solo, live, fn_args>>

\* change_context(StorageError::Insert)? after a statement failed: the
\* transaction is dropped and the call returns.
SaveFails ==
    /\ storage' = IF storage.tx.some THEN Rollback(storage) ELSE storage
    /\ fn_ret' = Some(Err("Insert"))
    /\ run_pc' = "returned"

SaveBegin ==
    /\ run_pc = "begin"
    /\ \/ /\ storage' = Begin(storage)
          /\ run_pc' = "insert_run"
          /\ fn_ret' = fn_ret
       \/ SaveFails
    /\ SaveUntouched

SaveInsertRun ==
    /\ run_pc = "insert_run"
    /\ \/ /\ storage' = InsertRun(storage, fn_args.run)
          /\ run_pc' = "insert_trades"
          /\ fn_ret' = fn_ret
       \/ SaveFails
    /\ SaveUntouched

\* One turn of `for trade in &trades`.
SaveInsertTrade ==
    /\ run_pc = "insert_trades"
    /\ Len(storage.tx.v.trades) < Len(fn_args.trades)
    /\ \/ /\ storage' = InsertTrade(storage,
                            fn_args.trades[Len(storage.tx.v.trades) + 1])
          /\ UNCHANGED <<run_pc, fn_ret>>
       \/ SaveFails
    /\ SaveUntouched

SaveCommit ==
    /\ run_pc = "insert_trades"
    /\ Len(storage.tx.v.trades) = Len(fn_args.trades)
    /\ \/ /\ storage' = Commit(storage)
          /\ fn_ret' = Some(Ok(<<>>))
          /\ run_pc' = "returned"
       \/ SaveFails
    /\ SaveUntouched

SaveNext == SaveBegin \/ SaveInsertRun \/ SaveInsertTrade \/ SaveCommit

SaveSpec == SaveInit /\ [][SaveNext]_vars

\* The trades of the call as list_backtest_trades returns them.
SavedTradesListed ==
    list_backtest_trades(storage, fn_args.run.run_id, MaxSavedTrades + 1)

\* C24: save_backtest_results stores the run and its trades as a unit: after
\* a successful call get_backtest_run returns the run and
\* list_backtest_trades all of its trades; after a failed call, and at every
\* moment before the commit, neither the run nor any of its trades is
\* visible.
C24_SavedAsUnit ==
    LET saved == run_pc = "returned" /\ fn_ret.v.ok
    IN  /\ saved =>
              /\ get_backtest_run(storage, fn_args.run.run_id) = Some(fn_args.run)
              /\ Len(SavedTradesListed) = Len(fn_args.trades)
              /\ {SavedTradesListed[k] : k \in 1..Len(SavedTradesListed)}
                    = {fn_args.trades[k] : k \in 1..Len(fn_args.trades)}
        /\ ~saved =>
              /\ get_backtest_run(storage, fn_args.run.run_id) = None
              /\ SavedTradesListed = <<>>

\* The run row and two trade rows have been written inside the transaction,
\* which is not committed yet, and an earlier run is stored.
C24_Witness ==
    /\ run_pc = "insert_trades"
    /\ storage.tx.some
    /\ Len(storage.tx.v.runs) = 1
    /\ Len(storage.tx.v.trades) = 2
    /\ get_backtest_run(storage, "run-0").some


(***************************************************************************)
(* apply_slippage called on its own                                        *)
(***************************************************************************)
\* Prices from zero up, slippage from none to the whole price.
SlippagePrices == {R(0), R(1), R(50), R(100), R(250)}
SlippageBps == {R(0), R(1), R(10), R(50), R(100), R(5000), R(10000)}

SlippageInit ==
    /\ NoRun
    /\ \E price \in SlippagePrices, bps \in SlippageBps, is_buy \in BOOLEAN :
          fn_args = [some |-> TRUE, price |-> price, slippage_bps |-> bps,
                     is_buy |-> is_buy]
    /\ fn_ret = Unset

CallApplySlippage ==
    /\ fn_args.some
    /\ ~fn_ret.some
    /\ fn_ret' = Some(apply_slippage(fn_args.price, fn_args.slippage_bps,
                                     fn_args.is_buy))
    /\ UNCHANGED <<inputs, engine, config, storage, run_pc, run_record,
                   run_result, save_calls, prev_output, parked, solo, live, fn_args>>

SlippageNext == CallApplySlippage

SlippageSpec == SlippageInit /\ [][SlippageNext]_vars

\* C25: for slippage_bps >= 0 and price >= 0 a buy fills at
\* price * (1 + bps/10000), never below the price, and a sell at
\* price * (1 - bps/10000), never above it; 100 at 10 bps is 100.1 for a buy
\* and 99.9 for a sell, and 0 bps leaves the price unchanged.
C25_SlippageUnfavourable ==
    fn_ret.some =>
        LET price == fn_args.price
            bps == fn_args.slippage_bps
            up == [n |-> price.n * (10000 * bps.d + bps.n),
                   d |-> price.d * 10000 * bps.d]
            down == [n |-> price.n * (10000 * bps.d - bps.n),
                     d |-> price.d * 10000 * bps.d]
        IN  /\ fn_args.is_buy =>
                  /\ fn_ret.v.n * up.d = up.n * fn_ret.v.d
                  /\ fn_ret.v.n * price.d >= price.n * fn_ret.v.d
            /\ ~fn_args.is_buy =>
                  /\ fn_ret.v.n * down.d = down.n * fn_ret.v.d
                  /\ fn_ret.v.n * price.d <= price.n * fn_ret.v.d
            /\ (price = R(100) /\ bps = R(10)) =>
                  fn_ret.v = IF fn_args.is_buy THEN [n |-> 1001, d |-> 10]
                             ELSE [n |-> 999, d |-> 10]
            /\ bps = Zero => fn_ret.v = price

\* A sell of 100 at 10 bps was priced at 99.9.
C25_Witness ==
    /\ fn_ret = Some([n |-> 999, d |-> 10])
    /\ fn_args.price = R(100)
    /\ fn_args.slippage_bps = R(10)
    /\ ~fn_args.is_buy


\* C26: after a run, the sum of net_pnl over all trades equals
\* final_equity - initial_capital; for every trade gross_pnl - net_pnl is its
\* fee_paid, which is the entry fee plus the exit fee, and gross_pnl is
\* (exit_price - entry_price) * quantity.
C26_LedgerIdentity ==
    /\ \A k \in 1..Len(trades) :
          LET t == trades[k]
              entry_fee == RDiv(RMul(RMul(t.entry_price, t.quantity), FeeRate),
                                R(10000))
              exit_fee == RDiv(RMul(RMul(t.exit_price, t.quantity), FeeRate),
                               R(10000))
          IN  /\ RSub(t.gross_pnl, t.net_pnl) = t.fee_paid
              /\ t.fee_paid = RAdd(entry_fee, exit_fee)
              /\ t.gross_pnl = RMul(RSub(t.exit_price, t.entry_price), t.quantity)
    /\ run_record.some =>
          RSum([k \in 1..Len(trades) |-> trades[k].net_pnl])
              = RSub(run_record.final_equity, run_record.initial_capital)

\* A run was built with two or more trades, fees were paid, and the run
\* ended with a loss.
C26_Witness ==
    /\ run_record.some
    /\ Len(trades) >= 2
    /\ \E k \in 1..Len(trades) : RGt(trades[k].fee_paid, Zero)
    /\ RLt(run_record.final_equity, run_record.initial_capital)


(***************************************************************************)
(* The engine under fees up to and above the whole notional                *)
(***************************************************************************)
\* Fee overrides of 0, 25% and 200% of the notional, for the engine's
\* exchange.
FeeSetups ==
    {[exchange |-> "binance",
      costs |-> [slippage_bps |-> R(slip_fee[1]),
                 fee_bps_overrides |-> [e \in {"binance"} |-> R(slip_fee[2])]]] :
        slip_fee \in {<<0, 0>>, <<5000, 2500>>, <<0, 20000>>}}

CashSetups ==
    {[exchange |-> setup.exchange,
      settings |-> SettingsOf(setup.costs, NoRiskLimits, percent)] :
        setup \in FeeSetups, percent \in {R(50), R(100)}}

CashInit ==
    /\ candles \in CandleHistories
    /\ \E setup \in CashSetups :
          /\ settings = setup.settings
          /\ exchange = setup.exchange
    /\ \E ms \in ModelSetups(Len(candles)) :
          /\ model = ms.model
          /\ input_series = ms.series
    /\ cash = settings.initial_capital
    /\ last_entry_fill_index = None
    /\ open_lots = <<>>
    /\ trades = <<>>
    /\ equity_curve = <<>>
    /\ pc = "loop"
    /\ index = 0
    /\ action = "None"
    /\ accepted_buys = 0
    /\ OutsideIdle

CashSpec == CashInit /\ [][Next]_vars

\* initial_capital > 0, entry_size_percent in (0, 100], slippage in
\* [0, 10000] bps and candle prices that are not negative.
LedgerInputsInRange ==
    /\ RGt(settings.initial_capital, Zero)
    /\ RGt(settings.entry_size_percent, Zero)
    /\ RLe(settings.entry_size_percent, R(100))
    /\ RLe(Zero, settings.costs.slippage_bps)
    /\ RLe(settings.costs.slippage_bps, R(10000))
    /\ \A k \in 1..Len(candles) :
          RLe(Zero, candles[k].open) /\ RLe(Zero, candles[k].close)

CashAndLotsPositive ==
    /\ RLe(Zero, cash)
    /\ \A k \in 1..Len(open_lots) :
          RGt(open_lots[k].quantity, Zero) /\ RGt(open_lots[k].entry_price, Zero)

\* C27 as stated: with the inputs in range and any fee rate >= 0, cash is
\* never negative and every open lot has quantity > 0 and entry_price > 0.
C27_Original ==
    (LedgerInputsInRange /\ RLe(Zero, FeeRate)) => CashAndLotsPositive

\* C27: with the inputs in range and a fee rate in [0, 10000] bps, cash is
\* never negative and every open lot has quantity > 0 and entry_price > 0.
C27_CashNeverNegative ==
    (LedgerInputsInRange /\ RLe(Zero, FeeRate) /\ RLe(FeeRate, R(10000)))
        => CashAndLotsPositive

\* The whole cash went into a lot under a 25% fee and slippage, leaving
\* cash at zero with the lot open.
C27_Witness ==
    /\ cash = Zero
    /\ open_lots # <<>>
    /\ FeeRate = R(2500)
    /\ settings.costs.slippage_bps = R(5000)


\* A Buy is decided with no lot open while the cooldown counted from the
\* last entry's fill index has not elapsed.
BuyInCooldownAfterClose ==
    /\ InLoop
    /\ Decision = "Buy"
    /\ open_lots = <<>>
    /\ trades # <<>>
    /\ last_entry_fill_index.some
    /\ index + 1 <= last_entry_fill_index.v + CooldownBars

\* C28: closing lots, by a model Sell or by the forced exit, leaves
\* last_entry_fill_index unchanged, so a Buy signalled after a Sell is still
\* rejected while the cooldown counted from the last entry's fill index has
\* not elapsed, although no lot is open.
C28_CloseKeepsCooldown ==
    [][/\ Len(trades') > Len(trades) =>
              /\ open_lots' = <<>>
              /\ last_entry_fill_index' = last_entry_fill_index
       /\ BuyInCooldownAfterClose =>
              /\ open_lots' = <<>>
              /\ cash' = cash
              /\ last_entry_fill_index' = last_entry_fill_index]_vars

\* A Buy was signalled after a model Sell had closed every lot, with cash
\* and a fill price above zero, and was rejected: the cooldown from the
\* entry before the Sell had not elapsed.
C28_Witness ==
    /\ action = "Buy"
    /\ open_lots = <<>>
    /\ trades # <<>>
    /\ Last(trades).reason = "model_sell"
    /\ last_entry_fill_index.some
    /\ index <= last_entry_fill_index.v + CooldownBars
    /\ RGt(cash, Zero)
    /\ RGt(At(candles, index).open, Zero)


\* C29: with strictly ascending candles every trade has
\* entry_time <= exit_time; a trade closed by a model Sell exits strictly
\* later than it entered; a lot opened at the last step, at the last
\* candle's open, is closed by the forced exit at that same time.
C29_TradeTimes ==
    /\ \A k \in 1..Len(trades) :
          LET t == trades[k]
          IN  /\ t.entry_time <= t.exit_time
              /\ t.reason = "model_sell" => t.entry_time < t.exit_time
              /\ t.entry_time = Last(candles).open_time =>
                    /\ t.reason = "forced_exit"
                    /\ t.exit_time = t.entry_time
    /\ pc = "done" =>
          \A k \in 1..Len(trades) :
              trades[k].reason = "forced_exit" =>
                  trades[k].exit_time = Last(candles).open_time

\* A run ended with a trade closed by a model Sell and a lot that was
\* opened at the last candle's open and force-closed at the same time.
C29_Witness ==
    /\ pc = "done"
    /\ \E k \in 1..Len(trades) : trades[k].reason = "model_sell"
    /\ \E k \in 1..Len(trades) :
          /\ trades[k].reason = "forced_exit"
          /\ trades[k].entry_time = trades[k].exit_time
          /\ trades[k].entry_time = Last(candles).open_time


\* Every input the model requires has a series.
RequiredInputsConfigured ==
    \A k \in 1..Len(model.required_inputs) :
        model.required_inputs[k] \in DOMAIN input_series

ModelEvaluated == action \in {"Buy", "Sell", "Hold"}

\* C30: when every required input of the model is a configured input, the
\* steps skipped for absent features form a prefix of the run: once the
\* model has been evaluated at a step, it is evaluated at every later step.
C30_WarmupIsPrefix ==
    [][(RequiredInputsConfigured /\ ModelEvaluated /\ index' = index + 1)
          => action' # "Skip"]_vars

\* The first step was skipped for an absent feature and the two steps after
\* it were evaluated.
C30_Witness ==
    /\ RequiredInputsConfigured
    /\ ~collect_feature_values(model, input_series, 0).some
    /\ collect_feature_values(model, input_series, 1).some
    /\ ModelEvaluated
    /\ index = 3


(***************************************************************************)
(* Two runs of the engine on candle histories of equal length              *)
(* (backtest.rs execute, signal_input.rs build_input_series)               *)
(***************************************************************************)
\* Inputs and model of a twin run: the RSI of one bar with the default
\* thresholds, a moving-average cross of one and two bars, and thresholds on
\* the raw close.
TwinModels ==
    {[inputs |-> <<FastRsi>>,
      model |-> TradingModelConfig("m", "rsi_reversion", <<"rsi_14">>, NoParams)],
     [inputs |-> <<InputConfig("sma_short", "sma", Period(1)),
                   InputConfig("sma_long", "sma", Period(2))>>,
      model |-> TradingModelConfig("m", "sma_cross", <<>>, NoParams)],
     [inputs |-> <<InputConfig("px", "close", NoParams)>>,
      model |-> TradingModelConfig("m", "rsi_reversion", <<"px">>, PriceParams)]}

TwinRisks == {NoRiskLimits, [max_entries_per_position |-> 1, cooldown_bars |-> 1]}

TwinHistories ==
    UNION {{[k \in 1..n |-> Candle(k - 1, shapes[k])] :
                shapes \in [1..n -> RunCandleShapes]} : n \in 3..MaxCandles}

\* BacktestEngine::new and the start of execute on the history cs, the
\* input series computed from cs.
TwinInstance(id, setup, risk, tm, cs) ==
    [id |-> id, settings |-> SettingsOf(setup.costs, risk, R(50)),
     exchange |-> setup.exchange, candles |-> cs,
     model |-> build_model(tm.model).v,
     input_series |-> build_input_series(build_inputs(tm.inputs).v, cs).v,
     cash |-> R(1000), last_entry_fill_index |-> None,
     open_lots |-> <<>>, trades |-> <<>>, equity_curve |-> <<>>,
     pc |-> "loop", index |-> 0, action |-> "None", accepted_buys |-> 0]

\* The two histories have the same length and the same first candle.
TwinInit ==
    /\ \E setup \in CostSetups, risk \in TwinRisks, tm \in TwinModels,
          cs \in TwinHistories :
          \E other \in {h \in TwinHistories : Len(h) = Len(cs) /\ h[1] = cs[1]} :
             /\ settings = SettingsOf(setup.costs, risk, R(50))
             /\ exchange = setup.exchange
             /\ candles = cs
             /\ model = build_model(tm.model).v
             /\ input_series = build_input_series(build_inputs(tm.inputs).v, cs).v
             /\ parked = TwinInstance(2, setup, risk, tm, other)
    /\ cash = settings.initial_capital
    /\ last_entry_fill_index = None
    /\ open_lots = <<>>
    /\ trades = <<>>
    /\ equity_curve = <<>>
    /\ pc = "loop"
    /\ index = 0
    /\ action = "None"
    /\ accepted_buys = 0
    /\ run_pc = "pair"
    /\ solo = Unset
    /\ LiveIdle
    /\ config = Unset
    /\ storage = Unset
    /\ run_record = Unset
    /\ run_result = Unset
    /\ save_calls = 0
    /\ prev_output = Unset
    /\ fn_args = Unset
    /\ fn_ret = Unset

TwinNext ==
    \/ StepSkip
    \/ StepBuy
    \/ StepSell
    \/ StepHold
    \/ ForceClose
    \/ Switch

TwinSpec == TwinInit /\ [][TwinNext]_vars

\* The histories x and y have the same length and the same candles at the
\* indices 0..k.
AgreeUpTo(x, y, k) ==
    /\ Len(x) = Len(y)
    /\ \A j \in 0..k : j < Len(x) => At(x, j) = At(y, j)

\* Both runs have finished step index - 1 and neither has closed yet.
SameStepDone ==
    /\ FirstInstance.pc = "loop"
    /\ SecondInstance.pc = "loop"
    /\ FirstInstance.index = SecondInstance.index
    /\ FirstInstance.index >= 1

\* C31: no look-ahead. For two runs with the same settings, inputs and model
\* on candle histories of equal length that have both finished step i: if
\* the histories agree on the indices 0..i the action chosen at step i is
\* the same, and if they agree on the indices 0..i+1 the cash, the open
\* lots, the trades and last_entry_fill_index are the same.
C31_NoLookAhead ==
    SameStepDone =>
        LET a == FirstInstance
            b == SecondInstance
        IN  /\ AgreeUpTo(a.candles, b.candles, a.index - 1) => a.action = b.action
            /\ AgreeUpTo(a.candles, b.candles, a.index) =>
                  /\ a.cash = b.cash
                  /\ a.open_lots = b.open_lots
                  /\ a.trades = b.trades
                  /\ a.last_entry_fill_index = b.last_entry_fill_index

\* Both runs have bought at step 0 and sold at step 1 on histories that
\* agree on the indices 0..2 and differ at index 3.
C31_Witness ==
    /\ SameStepDone
    /\ FirstInstance.index = 2
    /\ AgreeUpTo(FirstInstance.candles, SecondInstance.candles, 2)
    /\ FirstInstance.candles # SecondInstance.candles
    /\ Len(FirstInstance.trades) = 1
    /\ Len(SecondInstance.trades) = 1


(***************************************************************************)
(* The registries called on one configuration                              *)
(* (signal_model.rs build_model, signal_input.rs build_input)              *)
(***************************************************************************)
\* Largest period a configuration asks for.
MaxParam == 3

\* Thresholds a configuration asks for.
ThresholdParams == {20, 40}

\* A numeric TOML value written as an integer (40) or as a float (40.0).
NumericValue(type, k) == IF type = "integer" THEN IntegerValue(k) ELSE FloatValue(R(k))

NumericTypes == {"integer", "float"}

\* The parameter table in which the keys of set are set, key by key with
\* the type and the number given.
ParamTable(set, type, number) ==
    [key \in set |-> NumericValue(type[key], number[key])]

ThresholdKeys == {"oversold", "overbought"}
BollingerKeys == {"period", "std_dev_multiplier"}

RegistryInit ==
    /\ NoRun
    /\ \/ \E set \in SUBSET ThresholdKeys, type \in [ThresholdKeys -> NumericTypes],
             number \in [ThresholdKeys -> ThresholdParams] :
             fn_args = [some |-> TRUE, fn |-> "build_model",
                        cfg |-> TradingModelConfig("m", "rsi_reversion", <<"rsi_14">>,
                                                   ParamTable(set, type, number))]
       \/ \E kind \in {"rsi", "sma", "ema", "volume_ma"}, set \in SUBSET {"period"},
             type \in [{"period"} -> NumericTypes],
             number \in [{"period"} -> 1..MaxParam] :
             fn_args = [some |-> TRUE, fn |-> "build_input",
                        cfg |-> InputConfig("in", kind, ParamTable(set, type, number))]
       \/ \E set \in SUBSET BollingerKeys, type \in [BollingerKeys -> NumericTypes],
             number \in [BollingerKeys -> {1, MaxParam}] :
             fn_args = [some |-> TRUE, fn |-> "build_input",
                        cfg |-> InputConfig("in", "bollinger",
                                            ParamTable(set, type, number))]
    /\ fn_ret = Unset

CallBuildModel ==
    /\ fn_args.some
    /\ fn_args.fn = "build_model"
    /\ ~fn_ret.some
    /\ fn_ret' = Some(build_model(fn_args.cfg))
    /\ UNCHANGED <<inputs, engine, config, storage, run_pc, run_record,
                   run_result, save_calls, prev_output, parked, solo, live, fn_args>>

CallBuildInput ==
    /\ fn_args.some
    /\ fn_args.fn = "build_input"
    /\ ~fn_ret.some
    /\ fn_ret' = Some(build_input(fn_args.cfg))
    /\ UNCHANGED <<inputs, engine, config, storage, run_pc, run_record,
                   run_result, save_calls, prev_output, parked, solo, live, fn_args>>

RegistryNext ==
    \/ CallBuildModel
    \/ CallBuildInput

RegistrySpec == RegistryInit /\ [][RegistryNext]_vars

\* The number a TOML value stands for, as a float and as a count.
FloatOf(val) == IF val.type = "integer" THEN R(val.v) ELSE val.v
CountOf(val) == IF val.type = "integer" THEN val.v ELSE val.v.n \div val.v.d

\* The value the registry is to use for key: the configured one when the
\* parameter is set, the default when it is unset.
ConfiguredFloat(cfg, key, default) ==
    IF key \in DOMAIN cfg.params THEN FloatOf(cfg.params[key]) ELSE default
ConfiguredCount(cfg, key, default) ==
    IF key \in DOMAIN cfg.params THEN CountOf(cfg.params[key]) ELSE default

DefaultPeriodOf(kind) ==
    IF kind = "rsi" THEN DefaultRsiPeriod
    ELSE IF kind = "sma" THEN DefaultSmaPeriod
    ELSE IF kind = "ema" THEN DefaultEmaPeriod
    ELSE IF kind = "bollinger" THEN DefaultBollingerPeriod
    ELSE DefaultVolumePeriod

\* C32: the registries use a parameter's configured value whenever it is
\* set and the default only when it is unset, whether the TOML value is an
\* integer or a float: the model built has the configured oversold and
\* overbought, the input built has the configured period and multiplier.
C32_ConfiguredValueUsed ==
    (fn_args.some /\ fn_ret.some /\ fn_ret.v.ok) =>
        LET cfg == fn_args.cfg
            made == fn_ret.v.v
        IN  IF fn_args.fn = "build_model"
            THEN /\ made.oversold = ConfiguredFloat(cfg, "oversold", R(DefaultOversold))
                 /\ made.overbought =
                       ConfiguredFloat(cfg, "overbought", R(DefaultOverbought))
            ELSE /\ made.indicator.period =
                       ConfiguredCount(cfg, "period", DefaultPeriodOf(cfg.kind))
                 /\ cfg.kind = "bollinger" =>
                       made.indicator.std_dev_multiplier =
                          ConfiguredFloat(cfg, "std_dev_multiplier",
                                          R(DefaultStdDevMultiplier))

\* A model configured with the integer oversold = 40 has been built with the
\* default threshold 30.
C32_Witness ==
    /\ fn_args.some
    /\ fn_args.fn = "build_model"
    /\ fn_ret.some
    /\ "oversold" \in DOMAIN fn_args.cfg.params
    /\ fn_args.cfg.params["oversold"].type = "integer"
    /\ fn_args.cfg.params["oversold"].v = 40
    /\ fn_ret.v.ok
    /\ fn_ret.v.v.oversold = R(DefaultOversold)


(***************************************************************************)
(* Runs on stored candles that may open at 0 (backtest.rs run)             *)
(***************************************************************************)
\* Configurations of a quiet run: the default model on the RSI of one bar,
\* thresholds on the raw close, a moving-average cross, and one without a
\* backtest section.
QuietConfigs ==
    {AppConfig(il_ml[1], il_ml[2],
               Some(BacktestConfig(setup.exchange, "1m", "m", setup.costs))) :
        il_ml \in {<<<<FastRsi>>, <<>>>>,
                   <<<<InputConfig("px", "close", NoParams)>>,
                     <<TradingModelConfig("m", "rsi_reversion", <<"px">>, PriceParams)>>>>,
                   <<<<InputConfig("sma_short", "sma", Period(1)),
                       InputConfig("sma_long", "sma", Period(2))>>,
                     <<TradingModelConfig("m", "sma_cross", <<>>, NoParams)>>>>},
        setup \in CostSetups}
    \cup {AppConfig(<<FastRsi>>, <<>>, None)}

\* (open, close) of a stored candle: as in RunCandleShapes, and an open at 0,
\* at which no Buy can be filled.
QuietCandleShapes == {<<2, 4>>, <<4, 2>>, <<0, 2>>}

QuietHistories ==
    UNION {{[k \in 1..n |-> Candle(k - 1, shapes[k])] :
                shapes \in [1..n -> QuietCandleShapes]} : n \in 0..MaxCandles}

QuietInit ==
    /\ config \in QuietConfigs
    /\ \E stored \in QuietHistories :
          storage = [candles |-> stored, runs |-> <<>>, trades |-> <<>>]
    /\ settings = (IF config.backtest.some THEN config.backtest.v ELSE Unset)
    /\ exchange = "none"
    /\ candles = <<>>
    /\ model = Unset
    /\ input_series = Unset
    /\ EngineIdle
    /\ run_pc = "load"
    /\ run_record = Unset
    /\ run_result = Unset
    /\ save_calls = 0
    /\ prev_output = Unset
    /\ parked = Unset
    /\ solo = Unset
    /\ LiveIdle
    /\ fn_args = Unset
    /\ fn_ret = Unset

QuietSpec == QuietInit /\ [][RunNext]_vars

\* An engine exists and has accepted no Buy so far.
NoBuyAccepted == pc \in {"loop", "done"} /\ accepted_buys = 0

\* Some step of the loop chose Buy.
BuyWasChosen ==
    \E i \in 0..(Len(candles) - 2) :
        /\ i < index
        /\ collect_feature_values(model, input_series, i).some
        /\ evaluate(model, collect_feature_values(model, input_series, i).v) = "Buy"

\* C33: a run in which no Buy is ever accepted has no trades and an
\* untouched ledger: every equity point is initial_capital, and the run
\* record has final_equity = initial_capital, total_return_pct = 0,
\* max_drawdown_pct = 0, win_rate_pct = 0 and trade_count = 0.
C33_NoBuyNoTrades ==
    NoBuyAccepted =>
        /\ trades = <<>>
        /\ open_lots = <<>>
        /\ cash = settings.initial_capital
        /\ \A k \in 1..Len(equity_curve) : equity_curve[k] = settings.initial_capital
        /\ run_record.some =>
              /\ run_record.final_equity = settings.initial_capital
              /\ run_record.total_return_pct = Zero
              /\ run_record.max_drawdown_pct = Zero
              /\ run_record.win_rate_pct = Zero
              /\ run_record.trade_count = 0

\* A run record was built after a run of three steps or more in which a Buy
\* was chosen and none was accepted.
C33_Witness ==
    /\ NoBuyAccepted
    /\ run_record.some
    /\ Len(equity_curve) >= 4
    /\ BuyWasChosen


(***************************************************************************)
(* Real-time candles from trades (main.rs                                  *)
(* sync_realtime_candles_from_trades, merge_trade_into_minute_candle)      *)
(***************************************************************************)
\* Number of trades received from the channel.
MaxTrades == 3

SecondsPerMinute == 60

\* Everything outside live mode is idle.
NoBacktest ==
    /\ settings = Unset
    /\ exchange = "none"
    /\ candles = <<>>
    /\ model = Unset
    /\ input_series = Unset
    /\ EngineIdle
    /\ run_pc = "none"
    /\ run_record = Unset
    /\ run_result = Unset
    /\ save_calls = 0
    /\ prev_output = Unset
    /\ parked = Unset
    /\ solo = Unset

\* (exchange, symbol) keys of latest_candles.
TradeKeys == {<<"upbit", "KRW-BTC">>, <<"binance", "BTCUSDT">>}

\* Unix seconds of a trade: before 1970, and two in the minute after the
\* first one.
TradeSeconds == {-1, 60, 61}

\* (price, volume) of a trade.
TradeSizes == {<<1, 1>>, <<2, 2>>, <<3, 1>>}

Trade(key, price, volume, timestamp) ==
    [exchange |-> key[1], symbol |-> key[2], price |-> R(price),
     volume |-> R(volume), timestamp |-> timestamp]

Trades ==
    {Trade(key, size[1], size[2], ts) :
        key \in TradeKeys, size \in TradeSizes, ts \in TradeSeconds}

\* unix_seconds - unix_seconds.rem_euclid(60)
minute_open_time(timestamp) == timestamp - (timestamp % SecondsPerMinute)

new_minute_candle(trade, open_time) ==
    [exchange |-> trade.exchange, symbol |-> trade.symbol, timeframe |-> "1m",
     open_time |-> open_time, open |-> trade.price, high |-> trade.price,
     low |-> trade.price, close |-> trade.price, volume |-> trade.volume]

\* Mutant: the volume of the minute is the volume of its latest trade.
MergeIntoCandle_volume_replaced(candle, trade) ==
    [candle EXCEPT !.high = RMax(candle.high, trade.price),
                   !.low = RMin(candle.low, trade.price),
                   !.close = trade.price,
                   !.volume = trade.volume]

\* The arm of merge_trade_into_minute_candle for a trade of the stored
\* candle's minute.
MergeIntoCandle(candle, trade) ==
    [candle EXCEPT !.high = RMax(candle.high, trade.price),
                   !.low = RMin(candle.low, trade.price),
                   !.close = trade.price,
                   !.volume = RAdd(candle.volume, trade.volume)]

TradeKey(trade) == <<trade.exchange, trade.symbol>>

\* latest_candles with the candle stored under the trade's key.
Stored(latest, trade, candle) ==
    [key \in DOMAIN latest \cup {TradeKey(trade)} |->
        IF key = TradeKey(trade) THEN candle ELSE latest[key]]

\* Mutant: a trade of an earlier minute starts a candle as a later one does.
merge_trade_into_minute_candle_takes_stale(latest, trade) ==
    LET key == TradeKey(trade)
        minute_open == minute_open_time(trade.timestamp)
    IN  IF key \in DOMAIN latest /\ latest[key].open_time = minute_open
        THEN [latest |-> Stored(latest, trade, MergeIntoCandle(latest[key], trade)),
              ret |-> Some(MergeIntoCandle(latest[key], trade))]
        ELSE [latest |-> Stored(latest, trade, new_minute_candle(trade, minute_open)),
              ret |-> Some(new_minute_candle(trade, minute_open))]

\* The map after the call and the Option<Candle> returned.
merge_trade_into_minute_candle(latest, trade) ==
    LET key == TradeKey(trade)
        minute_open == minute_open_time(trade.timestamp)
    IN  IF key \in DOMAIN latest /\ latest[key].open_time < minute_open
        THEN [latest |-> Stored(latest, trade, new_minute_candle(trade, minute_open)),
              ret |-> Some(new_minute_candle(trade, minute_open))]
        ELSE IF key \in DOMAIN latest /\ latest[key].open_time = minute_open
        THEN [latest |-> Stored(latest, trade, MergeIntoCandle(latest[key], trade)),
              ret |-> Some(MergeIntoCandle(latest[key], trade))]
        ELSE IF key \in DOMAIN latest
        THEN [latest |-> latest, ret |-> None]
        ELSE [latest |-> Stored(latest, trade, new_minute_candle(trade, minute_open)),
              ret |-> Some(new_minute_candle(trade, minute_open))]

\* sync_realtime_candles_from_trades starts with an empty map.
CandleInit ==
    /\ NoBacktest
    /\ config = Unset
    /\ storage = Unset
    /\ latest_candles = <<>>
    /\ rx = <<>>
    /\ now = 0
    /\ notified = <<>>
    /\ live_pc = "none"
    /\ historical_handles = <<>>
    /\ task_handles = <<>>
    /\ sub_pc = "none"
    /\ cancel = FALSE
    /\ tx = <<>>
    /\ fn_args = Unset
    /\ fn_ret = Unset

\* One iteration of the loop of sync_realtime_candles_from_trades: a trade
\* is received and merged, and a candle that is returned is handed to
\* upsert_candles, which may fail (the rows of the table are not modelled).
SyncTrade ==
    /\ Len(rx) < MaxTrades
    /\ \E trade \in Trades :
          LET merged == merge_trade_into_minute_candle(latest_candles, trade)
          IN  /\ rx' = Append(rx, trade)
              /\ latest_candles' = merged.latest
              /\ fn_args' = Some(trade)
              /\ \E upserted \in (IF merged.ret.some THEN BOOLEAN ELSE {FALSE}) :
                    fn_ret' = Some([candle |-> merged.ret, upserted |-> upserted])
    /\ UNCHANGED <<inputs, engine, config, storage, run_pc, run_record, run_result,
                   save_calls, prev_output, parked, solo, now, notified, live_pc,
                   historical_handles, task_handles, sub_pc, cancel, tx>>

CandleNext == SyncTrade

CandleSpec == CandleInit /\ [][CandleNext]_vars

\* The trade just received is of a minute before the stored candle of its
\* key.
StaleTrade(latest, trade) ==
    /\ TradeKey(trade) \in DOMAIN latest
    /\ minute_open_time(trade.timestamp) < latest[TradeKey(trade)].open_time

\* C34: a trade whose minute is earlier than the open_time of the stored
\* candle of its key emits no candle and leaves the stored candles
\* unchanged; over any sequence of trades the stored open_time of a key
\* never decreases and is a whole-minute boundary.
C34_StaleIgnored ==
    [][/\ StaleTrade(latest_candles, fn_args'.v) =>
             /\ ~fn_ret'.v.candle.some
             /\ latest_candles' = latest_candles
       /\ \A key \in DOMAIN latest_candles :
             /\ key \in DOMAIN latest_candles'
             /\ latest_candles'[key].open_time >= latest_candles[key].open_time
       /\ \A key \in DOMAIN latest_candles' :
             latest_candles'[key].open_time % SecondsPerMinute = 0]_vars

\* A trade of second -1 was received after the candle of minute 60 was
\* stored for its key, and nothing was emitted.
C34_Witness ==
    /\ fn_args.some
    /\ fn_ret.some
    /\ fn_args.v.timestamp = -1
    /\ TradeKey(fn_args.v) \in DOMAIN latest_candles
    /\ latest_candles[TradeKey(fn_args.v)].open_time = 60
    /\ ~fn_ret.v.candle.some
    /\ Len(rx) = 3

RECURSIVE SelectTrades(_, _, _)
\* The trades of ts, in order, of the given key and minute.
SelectTrades(ts, key, open_time) ==
    IF ts = <<>> THEN <<>>
    ELSE (IF TradeKey(Head(ts)) = key /\ minute_open_time(Head(ts).timestamp) = open_time
          THEN <<Head(ts)>> ELSE <<>>) \o SelectTrades(Tail(ts), key, open_time)

\* The trades received so far in the minute of the stored candle of key.
Bucket(key) == SelectTrades(rx, key, latest_candles[key].open_time)

\* C35: the candle of a key is built from the trades of its minute bucket:
\* open is the price of the first, close the price of the latest, high the
\* largest and low the smallest price, volume the sum of the volumes (so
\* low <= open, close <= high); the first trade of a later minute starts a
\* candle from that trade alone; and the candle emitted is the stored one.
C35_CandleOfBucket ==
    /\ \A key \in DOMAIN latest_candles :
          LET candle == latest_candles[key]
              bucket == Bucket(key)
              prices == [k \in 1..Len(bucket) |-> bucket[k].price]
          IN  /\ bucket # <<>>
              /\ candle.open = bucket[1].price
              /\ candle.close = bucket[Len(bucket)].price
              /\ \A k \in 1..Len(bucket) :
                    RLe(prices[k], candle.high) /\ RLe(candle.low, prices[k])
              /\ \E k \in 1..Len(bucket) : candle.high = prices[k]
              /\ \E k \in 1..Len(bucket) : candle.low = prices[k]
              /\ candle.volume = RSum([k \in 1..Len(bucket) |-> bucket[k].volume])
              /\ RLe(candle.low, candle.open) /\ RLe(candle.open, candle.high)
              /\ RLe(candle.low, candle.close) /\ RLe(candle.close, candle.high)
    /\ (fn_ret.some /\ fn_ret.v.candle.some) =>
          fn_ret.v.candle.v = latest_candles[TradeKey(fn_args.v)]

\* Three trades of one minute with the prices 2, 3 and 1 have been merged.
C35_Witness ==
    \E key \in DOMAIN latest_candles :
        /\ Len(Bucket(key)) = 3
        /\ latest_candles[key].open = R(2)
        /\ latest_candles[key].high = R(3)
        /\ latest_candles[key].low = R(1)
        /\ latest_candles[key].close = R(1)
        /\ latest_candles[key].volume = R(4)


(***************************************************************************)
(* Alerts on tickers (main.rs analysis_loop, process_ticker;               *)
(* strategy/condition.rs evaluate, should_alert)                           *)
(***************************************************************************)
\* Latest minute of the clock, and the most notifications looked at.
MaxNow == 3
MaxNotified == 3

\* ConditionType
Above(threshold) == [type |-> "above", threshold |-> threshold]
Below(threshold) == [type |-> "below", threshold |-> threshold]
CrossAbove(threshold) == [type |-> "cross_above", threshold |-> threshold]
CrossBelow(threshold) == [type |-> "cross_below", threshold |-> threshold]
Between(low, high) == [type |-> "between", low |-> low, high |-> high]

is_triggered(condition, current, previous) ==
    IF condition.type = "above" THEN RGt(current, condition.threshold)
    ELSE IF condition.type = "below" THEN RLt(current, condition.threshold)
    ELSE IF condition.type = "cross_above"
        THEN /\ previous.some
             /\ RLe(previous.v, condition.threshold)
             /\ RGt(current, condition.threshold)
    ELSE IF condition.type = "cross_below"
        THEN /\ previous.some
             /\ RLe(condition.threshold, previous.v)
             /\ RLt(current, condition.threshold)
    ELSE RGt(current, condition.low) /\ RLt(current, condition.high)

\* The rules of the analysis loop, all for the ticker's exchange and symbol.
AlertRules ==
    <<[name |-> "rsi-high", condition |-> Above(R(70)), cooldown_minutes |-> 2],
      [name |-> "rsi-drop", condition |-> CrossBelow(R(30)), cooldown_minutes |-> 1]>>

\* Storage::last_alert_time: the latest triggered_at logged under the name.
last_alert_time(log, alert_name) ==
    LET rows == {k \in 1..Len(log) : log[k].alert_name = alert_name}
    IN  IF rows = {} THEN None
        ELSE Some(log[CHOOSE k \in rows :
                         \A j \in rows : log[j].triggered_at <= log[k].triggered_at]
                     .triggered_at)

\* should_alert on what last_alert_time returned.
should_alert(last_time, rule, clock) ==
    IF ~last_time.ok THEN Err("query")
    ELSE IF last_time.v.some /\ clock - last_time.v.v < rule.cooldown_minutes
    THEN Ok(FALSE)
    ELSE Ok(TRUE)

\* What the environment does to one rule's iteration of process_ticker: the
\* indicator values computed from the stored candles (none when the candles
\* cannot be fetched or are too few), and whether the two storage calls work.
RuleOutcomes ==
    [values : {<<>>, <<R(80)>>, <<R(50), R(80)>>, <<R(50), R(20)>>},
     query_ok : BOOLEAN, log_ok : BOOLEAN]

\* The body of the loop over the matching rules for one rule: the alerts
\* log and the notifications after it.
ProcessRule(st, rule, outcome) ==
    IF outcome.values = <<>> THEN st
    ELSE LET values == outcome.values
             current == values[Len(values)]
             previous == IF Len(values) >= 2 THEN Some(values[Len(values) - 1])
                         ELSE None
             last_time == IF outcome.query_ok
                          THEN Ok(last_alert_time(st.alerts_log, rule.name))
                          ELSE Err("query")
             fire == should_alert(last_time, rule, now)
         IN  IF ~is_triggered(rule.condition, current, previous) THEN st
             ELSE IF ~fire.ok \/ ~fire.v THEN st
             ELSE [alerts_log |->
                      IF outcome.log_ok
                      THEN Append(st.alerts_log,
                                  [alert_name |-> rule.name, triggered_at |-> now])
                      ELSE st.alerts_log,
                   notified |-> Append(st.notified,
                                       [alert_name |-> rule.name, at |-> now])]

RECURSIVE ProcessRules(_, _, _, _)
\* The rules k.. of process_ticker, in order.
ProcessRules(st, rules, outcomes, k) ==
    IF k > Len(rules) THEN st
    ELSE ProcessRules(ProcessRule(st, rules[k], outcomes[k]), rules, outcomes, k + 1)

AlertInit ==
    /\ NoBacktest
    /\ config = Unset
    /\ storage = [alerts_log |-> <<>>]
    /\ latest_candles = Unset
    /\ rx = <<>>
    /\ now = 0
    /\ notified = <<>>
    /\ live_pc = "none"
    /\ historical_handles = <<>>
    /\ task_handles = <<>>
    /\ sub_pc = "none"
    /\ cancel = FALSE
    /\ tx = <<>>
    /\ fn_args = Unset
    /\ fn_ret = Unset

\* Time passes.
ClockTick ==
    /\ now < MaxNow
    /\ now' = now + 1
    /\ UNCHANGED <<inputs, engine, config, storage, run_pc, run_record, run_result,
                   save_calls, prev_output, parked, solo, latest_candles, rx,
                   notified, live_pc, historical_handles, task_handles, sub_pc,
                   cancel, tx, fn_args, fn_ret>>

\* analysis_loop receives a ticker and process_ticker runs over the rules.
ProcessTicker ==
    /\ Len(notified) < MaxNotified
    /\ \E outcomes \in [1..Len(AlertRules) -> RuleOutcomes] :
          LET st == ProcessRules([alerts_log |-> storage.alerts_log,
                                  notified |-> notified], AlertRules, outcomes, 1)
          IN  /\ storage' = [storage EXCEPT !.alerts_log = st.alerts_log]
              /\ notified' = st.notified
    /\ UNCHANGED <<inputs, engine, config, run_pc, run_record, run_result,
                   save_calls, prev_output, parked, solo, latest_candles, rx, now,
                   live_pc, historical_handles, task_handles, sub_pc, cancel, tx,
                   fn_args, fn_ret>>

AlertNext ==
    \/ ClockTick
    \/ ProcessTicker

AlertSpec == AlertInit /\ [][AlertNext]_vars

CooldownOf(alert_name) ==
    LET k == CHOOSE j \in 1..Len(AlertRules) : AlertRules[j].name = alert_name
    IN  AlertRules[k].cooldown_minutes

\* C36: two notifications of the same alert rule are never emitted less than
\* the rule's cooldown_minutes apart.
C36_CooldownBetweenNotifications ==
    \A i, j \in 1..Len(notified) :
        (i < j /\ notified[i].alert_name = notified[j].alert_name) =>
            notified[j].at - notified[i].at >= CooldownOf(notified[i].alert_name)

\* The rule with a cooldown of two minutes has notified twice in the same
\* minute, and its first alert is not in the log.
C36_Witness ==
    /\ Len(notified) >= 2
    /\ notified[1].alert_name = "rsi-high"
    /\ notified[2].alert_name = "rsi-high"
    /\ notified[2].at = notified[1].at
    /\ \A k \in 1..Len(storage.alerts_log) : storage.alerts_log[k].triggered_at > notified[1].at


(***************************************************************************)
(* Live mode (main.rs run_live)                                            *)
(***************************************************************************)
ExchangeConfig(name, enabled) == [name |-> name, enabled |-> enabled]
CoinConfig(exchange_name, symbol, timeframes) ==
    [exchange |-> exchange_name, symbol |-> symbol, timeframes |-> timeframes]

\* Configurations of live mode: no exchange enabled, one exchange with one
\* or two jobs, two exchanges, and an exchange without a coin.
LiveConfigs ==
    {[exchanges |-> <<ExchangeConfig("upbit", FALSE)>>,
      coins |-> <<CoinConfig("upbit", "KRW-BTC", <<"1m">>)>>],
     [exchanges |-> <<ExchangeConfig("upbit", TRUE)>>,
      coins |-> <<CoinConfig("upbit", "KRW-BTC", <<"1m">>)>>],
     [exchanges |-> <<ExchangeConfig("upbit", TRUE), ExchangeConfig("binance", TRUE)>>,
      coins |-> <<CoinConfig("binance", "BTCUSDT", <<"1m", "5m">>)>>],
     [exchanges |-> <<ExchangeConfig("upbit", TRUE), ExchangeConfig("binance", TRUE)>>,
      coins |-> <<CoinConfig("upbit", "KRW-BTC", <<"1m">>),
                  CoinConfig("binance", "BTCUSDT", <<"1m", "5m">>)>>],
     [exchanges |-> <<ExchangeConfig("kraken", TRUE), ExchangeConfig("upbit", TRUE)>>,
      coins |-> <<CoinConfig("kraken", "XBTUSD", <<"1m">>),
                  CoinConfig("upbit", "KRW-BTC", <<>>)>>]}

RECURSIVE SelectSeq2(_, _, _)
\* The elements of s, in order, for which keep[k] holds.
SelectSeq2(s, keep, k) ==
    IF k > Len(s) THEN <<>>
    ELSE (IF keep[k] THEN <<s[k]>> ELSE <<>>) \o SelectSeq2(s, keep, k + 1)

RECURSIVE Concat(_)
Concat(ss) == IF ss = <<>> THEN <<>> ELSE Head(ss) \o Concat(Tail(ss))

\* The kinds of the enabled exchanges that are known, in order.
build_exchanges(cfg) ==
    LET keep == [k \in 1..Len(cfg.exchanges) |->
                    /\ cfg.exchanges[k].enabled
                    /\ cfg.exchanges[k].name \in {"upbit", "binance"}]
        kept == SelectSeq2(cfg.exchanges, keep, 1)
    IN  [k \in 1..Len(kept) |-> kept[k].name]

\* The coins configured for an exchange kind.
CoinsOf(cfg, exchange_kind) ==
    SelectSeq2(cfg.coins,
               [k \in 1..Len(cfg.coins) |-> cfg.coins[k].exchange = exchange_kind], 1)

\* The (exchange, symbol, timeframe) jobs of the historical fetch, in the
\* order in which run_live spawns them.
HistoricalJobs(cfg) ==
    LET exchanges == build_exchanges(cfg)
        of_coin(coin) == [k \in 1..Len(coin.timeframes) |->
                             [exchange |-> coin.exchange, symbol |-> coin.symbol,
                              timeframe |-> coin.timeframes[k]]]
        of_exchange(kind) ==
            LET coins == CoinsOf(cfg, kind)
            IN  Concat([k \in 1..Len(coins) |-> of_coin(coins[k])])
    IN  Concat([k \in 1..Len(exchanges) |-> of_exchange(exchanges[k])])

\* The ticker and trade subscription tasks that run_live spawns, in order.
WebSocketTasks(cfg) ==
    LET exchanges == build_exchanges(cfg)
        of_exchange(kind) ==
            IF CoinsOf(cfg, kind) = <<>> THEN <<>>
            ELSE <<[task |-> "subscribe_ticker", exchange |-> kind],
                   [task |-> "subscribe_trades", exchange |-> kind]>>
    IN  Concat([k \in 1..Len(exchanges) |-> of_exchange(exchanges[k])])

LiveInit ==
    /\ NoBacktest
    /\ config \in LiveConfigs
    /\ storage = Unset
    /\ latest_candles = Unset
    /\ rx = <<>>
    /\ now = 0
    /\ notified = <<>>
    /\ live_pc = "start"
    /\ historical_handles = <<>>
    /\ task_handles = <<>>
    /\ sub_pc = "none"
    /\ cancel = FALSE
    /\ tx = <<>>
    /\ fn_args = Unset
    /\ fn_ret = Unset

LiveFrame ==
    UNCHANGED <<inputs, engine, config, storage, run_pc, run_record, run_result,
                save_calls, prev_output, parked, solo, latest_candles, rx, now,
                notified, sub_pc, tx, fn_args, fn_ret>>

\* run_live up to the historical fetch: it returns when no exchange is
\* enabled.
LiveStart ==
    /\ live_pc = "start"
    /\ live_pc' = (IF build_exchanges(config) = <<>> THEN "returned" ELSE "spawn")
    /\ UNCHANGED <<historical_handles, task_handles, cancel>>
    /\ LiveFrame

\* tokio::spawn of the next historical job, or the end of the loop.
SpawnHistorical ==
    /\ live_pc = "spawn"
    /\ IF Len(historical_handles) < Len(HistoricalJobs(config))
       THEN /\ historical_handles' =
                  Append(historical_handles,
                         [job |-> HistoricalJobs(config)[Len(historical_handles) + 1],
                          state |-> "running", logged |-> FALSE, joined |-> FALSE])
            /\ UNCHANGED live_pc
       ELSE /\ live_pc' = "join"
            /\ UNCHANGED historical_handles
    /\ UNCHANGED <<task_handles, cancel>>
    /\ LiveFrame

\* A spawned task runs fetch_and_store_historical to its end: Ok, an Err
\* that the task logs, or a panic.
HistoricalTaskEnds ==
    /\ \E k \in 1..Len(historical_handles), end \in {"ok", "failed", "panicked"} :
          /\ historical_handles[k].state = "running"
          /\ historical_handles' =
                [historical_handles EXCEPT ![k].state = end,
                                           ![k].logged = (end = "failed")]
    /\ UNCHANGED <<live_pc, task_handles, cancel>>
    /\ LiveFrame

JoinNext == CHOOSE k \in 1..Len(historical_handles) :
               /\ ~historical_handles[k].joined
               /\ \A j \in 1..(k - 1) : historical_handles[j].joined

\* Mutant: the handles are dropped instead of awaited.
JoinHistorical_detached ==
    /\ live_pc = "join"
    /\ IF \E k \in 1..Len(historical_handles) : ~historical_handles[k].joined
       THEN /\ historical_handles' = [historical_handles EXCEPT ![JoinNext].joined = TRUE]
            /\ UNCHANGED live_pc
       ELSE /\ live_pc' = "websocket"
            /\ UNCHANGED historical_handles
    /\ UNCHANGED <<task_handles, cancel>>
    /\ LiveFrame

\* handle.await of the next handle, which returns when its task has ended
\* and is an error when the task panicked; or the end of the loop.
JoinHistorical ==
    /\ live_pc = "join"
    /\ IF \E k \in 1..Len(historical_handles) : ~historical_handles[k].joined
       THEN /\ historical_handles[JoinNext].state # "running"
            /\ historical_handles' = [historical_handles EXCEPT ![JoinNext].joined = TRUE]
            /\ live_pc' = (IF historical_handles[JoinNext].state = "panicked"
                           THEN "returned" ELSE "join")
       ELSE /\ live_pc' = "websocket"
            /\ UNCHANGED historical_handles
    /\ UNCHANGED <<task_handles, cancel>>
    /\ LiveFrame

\* The WebSocket subscriptions, the candle sync and the analysis loop are
\* spawned.
SpawnWebSocket ==
    /\ live_pc = "websocket"
    /\ task_handles' = WebSocketTasks(config)
                          \o <<[task |-> "sync_realtime_candles_from_trades",
                                exchange |-> "none"],
                               [task |-> "analysis_loop", exchange |-> "none"]>>
    /\ live_pc' = "running"
    /\ UNCHANGED <<historical_handles, cancel>>
    /\ LiveFrame

\* ctrl+c: the token is cancelled and run_live returns.
Shutdown ==
    /\ live_pc = "running"
    /\ cancel' = TRUE
    /\ live_pc' = "returned"
    /\ UNCHANGED <<historical_handles, task_handles>>
    /\ LiveFrame

LiveNext ==
    \/ LiveStart
    \/ SpawnHistorical
    \/ HistoricalTaskEnds
    \/ JoinHistorical
    \/ SpawnWebSocket
    \/ Shutdown

LiveSpec == LiveInit /\ [][LiveNext]_vars

\* run_live is not suspended for ever at a point where it can continue: the
\* runtime polls a task that is ready.
LiveFairSpec ==
    /\ LiveSpec
    /\ WF_vars(LiveStart)
    /\ WF_vars(SpawnHistorical)
    /\ WF_vars(JoinHistorical)
    /\ WF_vars(SpawnWebSocket)

SubscriptionStarted ==
    \E k \in 1..Len(task_handles) :
        task_handles[k].task \in {"subscribe_ticker", "subscribe_trades"}

\* Every job has been spawned and has ended without a panic, one of them
\* with an error.
FetchFailedAllEnded ==
    /\ live_pc = "join"
    /\ \A k \in 1..Len(historical_handles) :
          historical_handles[k].state \in {"ok", "failed"}
    /\ \E k \in 1..Len(historical_handles) : historical_handles[k].state = "failed"

\* C37: no WebSocket subscription task is started before every spawned
\* historical-fetch task has finished; a historical fetch that fails is
\* logged, and once the fetches have ended, some of them failed, the
\* WebSocket subscriptions are started.
C37_WebSocketAfterHistorical ==
    /\ [](SubscriptionStarted =>
             /\ Len(historical_handles) = Len(HistoricalJobs(config))
             /\ \A k \in 1..Len(historical_handles) :
                   historical_handles[k].state # "running")
    /\ [](\A k \in 1..Len(historical_handles) :
             historical_handles[k].state = "failed" => historical_handles[k].logged)
    /\ (FetchFailedAllEnded ~> SubscriptionStarted)

\* The subscriptions were started after three historical fetches, one of
\* which failed.
C37_Witness ==
    /\ SubscriptionStarted
    /\ Len(historical_handles) = 3
    /\ \E k \in 1..Len(historical_handles) : historical_handles[k].state = "failed"


(***************************************************************************)
(* A WebSocket subscription (exchange/upbit.rs, exchange/binance.rs        *)
(* subscribe_ticker, subscribe_trades, run_ticker_ws, run_trades_ws)       *)
(***************************************************************************)
\* Most values sent into the channel.
MaxSent == 3

\* The four subscriptions of the Exchange trait's implementations.
Subscriptions ==
    [exchange : {"upbit", "binance"}, stream : {"ticker", "trades"}]

\* Values that a message of the stream parses to.
StreamValues == {1, 2}

SubscribeInit ==
    /\ NoBacktest
    /\ config = Unset
    /\ storage = Unset
    /\ latest_candles = Unset
    /\ rx = <<>>
    /\ now = 0
    /\ notified = <<>>
    /\ live_pc = "none"
    /\ historical_handles = <<>>
    /\ task_handles = <<>>
    /\ sub_pc = "loop"
    /\ cancel = FALSE
    /\ tx = <<>>
    /\ \E sub \in Subscriptions : fn_args = Some(sub)
    /\ fn_ret = Unset

SubscribeFrame ==
    UNCHANGED <<inputs, engine, config, storage, run_pc, run_record, run_result,
                save_calls, prev_output, parked, solo, latest_candles, rx, now,
                notified, live_pc, historical_handles, task_handles, fn_args>>

\* The owner of the token cancels it.
CancelToken ==
    /\ sub_pc # "none"
    /\ ~cancel
    /\ cancel' = TRUE
    /\ UNCHANGED <<sub_pc, tx, fn_ret>>
    /\ SubscribeFrame

\* Top of the loop of subscribe_*: break when cancelled, else run_*_ws.
LoopCheck ==
    /\ sub_pc = "loop"
    /\ IF cancel
       THEN sub_pc' = "done" /\ fn_ret' = Some(Ok("unit"))
       ELSE sub_pc' = "connect" /\ UNCHANGED fn_ret
    /\ UNCHANGED <<cancel, tx>>
    /\ SubscribeFrame

\* connect_async and, for Upbit, the subscription message: the stream is
\* open, or run_*_ws returns Err.
Connect ==
    /\ sub_pc = "connect"
    /\ sub_pc' \in {"stream", "backoff"}
    /\ UNCHANGED <<cancel, tx, fn_ret>>
    /\ SubscribeFrame

\* select! takes the cancelled branch: run_*_ws returns Ok, the loop breaks.
StreamCancelled ==
    /\ sub_pc = "stream"
    /\ cancel
    /\ sub_pc' = "done"
    /\ fn_ret' = Some(Ok("unit"))
    /\ UNCHANGED <<cancel, tx>>
    /\ SubscribeFrame

\* read.next() is a message: a ticker or trade is sent into tx, or the
\* message is a pong, a ping or cannot be parsed and nothing is sent.
StreamMessage ==
    /\ sub_pc = "stream"
    /\ \/ /\ Len(tx) < MaxSent
          /\ \E value \in StreamValues : tx' = Append(tx, value)
       \/ UNCHANGED tx
    /\ UNCHANGED <<sub_pc, cancel, fn_ret>>
    /\ SubscribeFrame

\* read.next() is Some(Err), the ping cannot be sent (Upbit) or the 23 h
\* timer fires (Binance): run_*_ws returns Err and the loop sleeps.
StreamError ==
    /\ sub_pc = "stream"
    /\ sub_pc' = "backoff"
    /\ UNCHANGED <<cancel, tx, fn_ret>>
    /\ SubscribeFrame

\* read.next() is None, the peer has closed the stream: run_*_ws breaks
\* and returns Ok, and the loop of subscribe_* breaks on Ok.
StreamEnded ==
    /\ sub_pc = "stream"
    /\ sub_pc' = "done"
    /\ fn_ret' = Some(Ok("unit"))
    /\ UNCHANGED <<cancel, tx>>
    /\ SubscribeFrame

\* sleep(backoff) is over (its length, doubled up to 60 s, is not
\* modelled); the loop starts again.
BackoffElapsed ==
    /\ sub_pc = "backoff"
    /\ sub_pc' = "loop"
    /\ UNCHANGED <<cancel, tx, fn_ret>>
    /\ SubscribeFrame

SubscribeNext ==
    \/ CancelToken
    \/ LoopCheck
    \/ Connect
    \/ StreamCancelled
    \/ StreamMessage
    \/ StreamError
    \/ StreamEnded
    \/ BackoffElapsed

SubscribeSpec == SubscribeInit /\ [][SubscribeNext]_vars

\* C38: the future of subscribe_ticker and subscribe_trades completes only
\* after the cancellation token has been cancelled; until then a
\* disconnect is followed by a reconnect.
C38_CompletesOnlyAfterCancel ==
    sub_pc = "done" => cancel

\* The subscription has sent values and has completed although the token
\* is not cancelled.
C38_Witness ==
    /\ sub_pc = "done"
    /\ fn_ret = Some(Ok("unit"))
    /\ ~cancel
    /\ Len(tx) >= 2


(***************************************************************************)
(* Alert rules from the configuration (config.rs validate,                 *)
(* strategy.rs AlertRule::from_config)                                     *)
(***************************************************************************)
\* Most alerts of a configuration.
MaxAlerts == 2

\* default_cooldown_minutes()
DefaultCooldownMinutes == 5

VALID_CONDITIONS == {"above", "below", "cross_above", "cross_below", "between"}

\* What an alert is written with: name, (exchange, symbol), condition,
\* whether threshold is given, how params.threshold_high is given, and
\* whether cooldown_minutes is given.
AlertShape(name, coin, condition, threshold, threshold_high, cooldown_minutes) ==
    [name |-> name, coin |-> coin, condition |-> condition, threshold |-> threshold,
     threshold_high |-> threshold_high, cooldown_minutes |-> cooldown_minutes]

UpbitBtc == <<"upbit", "KRW-BTC">>

\* Alerts that are complete, a "between" without one of its thresholds or
\* with an integer upper threshold, an alert on an exchange that is
\* configured and is neither upbit nor binance, and alerts that validate
\* rejects.
AlertShapes ==
    {AlertShape("a", UpbitBtc, "above", TRUE, "unset", FALSE),
     AlertShape("b", UpbitBtc, "cross_below", TRUE, "unset", TRUE),
     AlertShape("a", UpbitBtc, "between", TRUE, "float", FALSE),
     AlertShape("b", UpbitBtc, "between", TRUE, "unset", FALSE),
     AlertShape("b", UpbitBtc, "between", TRUE, "integer", FALSE),
     AlertShape("a", UpbitBtc, "between", FALSE, "float", TRUE),
     AlertShape("b", <<"kraken", "XBTUSD">>, "above", TRUE, "unset", FALSE),
     AlertShape("a", UpbitBtc, "above", FALSE, "unset", FALSE),
     AlertShape("b", UpbitBtc, "sideways", TRUE, "unset", FALSE),
     AlertShape("a", <<"upbit", "KRW-ETH">>, "above", TRUE, "unset", FALSE)}

AlertConfig(shape) ==
    [name |-> shape.name, exchange |-> shape.coin[1], symbol |-> shape.coin[2],
     indicator |-> "rsi",
     params |-> IF shape.threshold_high = "unset" THEN NoParams
                ELSE [key \in {"threshold_high"} |->
                         NumericValue(shape.threshold_high, 80)],
     condition |-> shape.condition,
     threshold |-> IF shape.threshold THEN Some(R(70)) ELSE None,
     cooldown_minutes |-> IF shape.cooldown_minutes THEN Some(1) ELSE None]

\* A configuration with the given alerts, two exchanges and a coin on each.
AlertsConfig(alerts) ==
    [general |-> [default_cooldown_minutes |-> DefaultCooldownMinutes],
     exchanges |-> <<ExchangeConfig("upbit", TRUE), ExchangeConfig("kraken", TRUE)>>,
     coins |-> <<CoinConfig("upbit", "KRW-BTC", <<"1m">>),
                 CoinConfig("kraken", "XBTUSD", <<"1m">>)>>,
     alerts |-> alerts,
     inputs |-> <<>>, models |-> <<>>, backtest |-> None]

validate_timeframes(cfg) ==
    IF \A k \in 1..Len(cfg.coins) :
          \A j \in 1..Len(cfg.coins[k].timeframes) :
             cfg.coins[k].timeframes[j] \in TimeFrames
    THEN Ok("unit") ELSE Err("unknown timeframe")

validate_coin_exchanges(cfg) ==
    IF \A k \in 1..Len(cfg.coins) :
          \E j \in 1..Len(cfg.exchanges) : cfg.exchanges[j].name = cfg.coins[k].exchange
    THEN Ok("unit") ELSE Err("coin exchange does not match any exchange name")

validate_alert_references(cfg) ==
    IF \A k \in 1..Len(cfg.alerts) :
          \E j \in 1..Len(cfg.coins) :
             /\ cfg.coins[j].exchange = cfg.alerts[k].exchange
             /\ cfg.coins[j].symbol = cfg.alerts[k].symbol
    THEN Ok("unit") ELSE Err("alert does not match any coin entry")

validate_alert_names_unique(cfg) ==
    IF Distinct(cfg.alerts) THEN Ok("unit") ELSE Err("alerts: duplicate name")

validate_alert_conditions(cfg) ==
    IF \E k \in 1..Len(cfg.alerts) : cfg.alerts[k].condition \notin VALID_CONDITIONS
    THEN Err("condition is not valid")
    ELSE IF \E k \in 1..Len(cfg.alerts) :
               /\ cfg.alerts[k].condition
                     \in {"above", "below", "cross_above", "cross_below"}
               /\ ~cfg.alerts[k].threshold.some
    THEN Err("threshold is required")
    ELSE Ok("unit")

\* config::validate, every check in its order.
validate_config(cfg) ==
    IF ~validate_timeframes(cfg).ok THEN validate_timeframes(cfg)
    ELSE IF ~validate_coin_exchanges(cfg).ok THEN validate_coin_exchanges(cfg)
    ELSE IF ~validate_alert_references(cfg).ok THEN validate_alert_references(cfg)
    ELSE IF ~validate_alert_names_unique(cfg).ok THEN validate_alert_names_unique(cfg)
    ELSE IF ~validate_alert_conditions(cfg).ok THEN validate_alert_conditions(cfg)
    ELSE validate(cfg)

\* Option<ConditionType>
parse_condition(alert) ==
    IF alert.condition \in {"above", "below", "cross_above", "cross_below"}
    THEN IF alert.threshold.some
         THEN Some([type |-> alert.condition, threshold |-> alert.threshold.v])
         ELSE None
    ELSE IF alert.condition = "between"
    THEN IF /\ alert.threshold.some
            /\ "threshold_high" \in DOMAIN alert.params
            /\ alert.params["threshold_high"].type = "float"
         THEN Some(Between(alert.threshold.v, alert.params["threshold_high"].v))
         ELSE None
    ELSE None

\* Option<AlertRule>
build_rule(alert, default_cooldown) ==
    IF alert.exchange \notin {"upbit", "binance"} THEN None
    ELSE IF ~parse_condition(alert).some THEN None
    ELSE Some([name |-> alert.name, exchange |-> alert.exchange,
               symbol |-> alert.symbol, indicator_name |-> alert.indicator,
               condition |-> parse_condition(alert).v,
               cooldown_minutes |-> IF alert.cooldown_minutes.some
                                    THEN alert.cooldown_minutes.v
                                    ELSE default_cooldown])

\* AlertRule::from_config: filter_map of build_rule over the alerts.
from_config(cfg) ==
    LET built == [k \in 1..Len(cfg.alerts) |->
                     build_rule(cfg.alerts[k], cfg.general.default_cooldown_minutes)]
        kept == SelectSeq2(built, [k \in 1..Len(built) |-> built[k].some], 1)
    IN  [k \in 1..Len(kept) |-> kept[k].v]

RulesInit ==
    /\ NoBacktest
    /\ config = Unset
    /\ storage = Unset
    /\ LiveIdle
    /\ \E n \in 0..MaxAlerts :
          \E shapes \in [1..n -> AlertShapes] :
             fn_args = Some(AlertsConfig([k \in 1..n |-> AlertConfig(shapes[k])]))
    /\ fn_ret = Unset

\* config::load validates the configuration, and run_live builds the rules
\* of a configuration that was accepted.
CallFromConfig ==
    /\ fn_args.some
    /\ ~fn_ret.some
    /\ fn_ret' = Some(IF validate_config(fn_args.v).ok
                      THEN Ok(from_config(fn_args.v))
                      ELSE validate_config(fn_args.v))
    /\ UNCHANGED <<inputs, engine, config, storage, run_pc, run_record,
                   run_result, save_calls, prev_output, parked, solo, live, fn_args>>

RulesNext == CallFromConfig

RulesSpec == RulesInit /\ [][RulesNext]_vars

\* C39: for every configuration accepted by validate, from_config returns
\* exactly one AlertRule per configured alert, in order.
C39_OneRulePerAlert ==
    (fn_ret.some /\ fn_ret.v.ok) =>
        /\ Len(fn_ret.v.v) = Len(fn_args.v.alerts)
        /\ \A k \in 1..Len(fn_ret.v.v) : fn_ret.v.v[k].name = fn_args.v.alerts[k].name

\* A configuration with two alerts was accepted and one rule was built: the
\* first alert, a "between" without an upper threshold, is missing.
C39_Witness ==
    /\ fn_ret.some
    /\ fn_ret.v.ok
    /\ Len(fn_args.v.alerts) = 2
    /\ fn_args.v.alerts[1].condition = "between"
    /\ fn_args.v.alerts[1].exchange = "upbit"
    /\ Len(fn_ret.v.v) = 1
    /\ fn_ret.v.v[1].name = fn_args.v.alerts[2].name

====
